---- MODULE Spec2Model ----
(***************************************************************************)
(* Peer-to-peer lobby of web_ghost (src/src/lobby.rs, src/src/main.rs):    *)
(* presence tracking, handshake, readiness aggregation, save arbitration   *)
(* and player ordering, as a state machine over a small set of peers.      *)
(*                                                                         *)
(* One Bevy frame of one peer is one action (Tick).  Inside a frame every  *)
(* system reads the world as it was when the frame began: spawn, despawn,  *)
(* insert and remove are queued as commands and applied, in system order,  *)
(* when the frame ends.  Mutations through Mut<T> / ResMut<T> (the ready   *)
(* checkbox, the socket, the message backlog, events) are immediate.       *)
(* Systems with no ordering constraint between them may run in either      *)
(* order; where the order is observable it is a nondeterministic input of  *)
(* the frame.                                                              *)
(***************************************************************************)
EXTENDS Integers, Sequences, FiniteSets, TLC

\* ---------------------------------------------------------------- bounds
NPeers == 3
MaxIds == 3
MaxRemoteOpens == 1
MaxTs == 2
MaxToggles == 1
MaxBacklog == 2
MaxTicks == 3
MaxNames == 2
Epsilon == 64

Peers == 1..NPeers
Ids == 1..MaxIds
Timestamps == 1..MaxTs
NoId == 0
NoTab == 0
NoInfo == 0
DefaultInfo == 1
Names == 1..MaxNames
NoCookies == [t \in Ids |-> NoInfo]
NoHandle == -1
NoSave == [ts |-> 0, by |-> 0]

VARIABLES
    kind,        \* "full": the whole program; "remote": a peer seen only through
                 \* what it sends; "closed": no tab open
    gstate,      \* GameState of each peer: "Matchmaking", "InGame", "Crashed"
    sockId,      \* socket.id(): the transport identifier, NoId until assigned
    usedIds,     \* transport identifiers the signalling server has handed out
    chanTaken,   \* channel 0 moved out of the socket (socket.take_channel(0))
    peers,       \* socket.peers: id -> "-", "C"onnected, "D"isconnected
    evq,         \* peer_state_rx: connect/disconnect events not yet polled
    links,       \* live transport connections, as sets {p, q}
    met,         \* pairs of transport identifiers that have been connected
    net,         \* reliable channel: net[s][r], messages s sent r has not polled
    messages,    \* Messages resource: the receive backlog
    world,       \* the peer records (entities), in creation order
    waitingOn,   \* WaitingOn resource
    storedSave,  \* stored GameSaveData resource
    tabStore,    \* sessionStorage "tab_id"
    fresh,       \* local components added by last frame's commands (Changed<T>)
    cookies,     \* the "UserInfo" cookie of each peer's browser: tab -> value
    fx,          \* fixed-point checks: the operands drawn and the last result
    game,        \* one player of a running session: the rollback components,
                 \* the input of the last tick and what it did
    toggles,     \* ready-checkbox clicks left in this lobby visit
    opens,       \* sockets a remote peer has opened
    session,     \* the rollback session built by lobby (Session resource)
    gamesaves,   \* main.rs lobby: the staging map of received snapshots, in
                 \* iteration order
    start        \* history: what the last start trigger on each peer saw

vars == <<kind, gstate, sockId, usedIds, chanTaken, peers, evq, links, met, net,
          messages, world, waitingOn, storedSave, tabStore, fresh, toggles, opens, session,
          gamesaves, start, cookies, fx, game>>

\* ---------------------------------------------------------------- helpers
Range(s) == {s[i] : i \in 1..Len(s)}

RECURSIVE Concat(_, _)
Concat(ss, i) == IF i > Len(ss) THEN <<>> ELSE ss[i] \o Concat(ss, i + 1)

\* first index of s whose element has transport identifier id, 0 if none
\* (Iterator::find over Query<(Entity, &MatchBoxPeerId)>)
RECURSIVE FindFrom(_, _, _)
FindFrom(W, id, i) ==
    IF i > Len(W) THEN 0
    ELSE IF W[i].id = id THEN i ELSE FindFrom(W, id, i + 1)

FindEntity(W, id) == FindFrom(W, id, 1)

\* a record that is ready from the moment it is spawned
NewRecordReady(id, local, tab, save) ==
    [id |-> id, local |-> local, tab |-> tab, ready |-> TRUE,
     info |-> NoInfo, save |-> save, handle |-> NoHandle]

NewRecord(id, local, tab, save) ==
    [id |-> id, local |-> local, tab |-> tab, ready |-> FALSE,
     info |-> NoInfo, save |-> save, handle |-> NoHandle]

LocalIdx(W) == {i \in 1..Len(W) : W[i].local}

\* Query<(&TabId, &IsReady, &UserInfo, Option<&GameSaveData>), With<IsLocal>>::get_single
CompleteLocalIdx(W) == {i \in LocalIdx(W) : W[i].tab # NoTab /\ W[i].info # NoInfo}

ConnectedPeers(pm) == {i \in Ids : pm[i] = "C"}

TabMsg(t) == [kind |-> "TabId", tab |-> t, ready |-> FALSE, save |-> NoSave, info |-> NoInfo]
ReadyMsg(r) == [kind |-> "Ready", tab |-> NoTab, ready |-> r, save |-> NoSave, info |-> NoInfo]
SaveMsg(s) == [kind |-> "GameSave", tab |-> NoTab, ready |-> FALSE, save |-> s, info |-> NoInfo]
InfoMsg(u) == [kind |-> "UserInfo", tab |-> NoTab, ready |-> FALSE, save |-> NoSave, info |-> u]
\* a packet bincode::deserialize::<P2PMessage> rejects
BadMsg == [kind |-> "Undecodable", tab |-> NoTab, ready |-> FALSE, save |-> NoSave, info |-> NoInfo]

\* ---------------------------------------------------------------- commands
SpawnCmd(r) == [op |-> "spawn", ent |-> 0, rec |-> r, msg |-> TabMsg(NoTab), handle |-> NoHandle]
DespawnCmd(e) == [op |-> "despawn", ent |-> e, rec |-> NewRecord(NoId, FALSE, NoTab, NoSave),
                  msg |-> TabMsg(NoTab), handle |-> NoHandle]
InsertCmd(e, m) == [op |-> "insert", ent |-> e, rec |-> NewRecord(NoId, FALSE, NoTab, NoSave),
                    msg |-> m, handle |-> NoHandle]
RemoveSaveCmd(e) == [op |-> "remove", ent |-> e, rec |-> NewRecord(NoId, FALSE, NoTab, NoSave),
                     msg |-> SaveMsg(NoSave), handle |-> NoHandle]
PlayerCmd(e, h) == [op |-> "player", ent |-> e, rec |-> NewRecord(NoId, FALSE, NoTab, NoSave),
                    msg |-> TabMsg(NoTab), handle |-> h]

\* an insert that writes every field the packet record has, not only the one
\* its variant names
InsertWholeRecord(r, m) ==
    [r EXCEPT !.tab = m.tab, !.ready = m.ready, !.save = m.save, !.info = m.info]

\* EntityCommands::insert of one component
InsertComponent(r, m) ==
    CASE m.kind = "TabId" -> [r EXCEPT !.tab = m.tab]
      [] m.kind = "Ready" -> [r EXCEPT !.ready = m.ready]
      [] m.kind = "GameSave" -> [r EXCEPT !.save = m.save]
      [] m.kind = "UserInfo" -> [r EXCEPT !.info = m.info]

\* One queued command applied to the world.  Insert on an entity a previous
\* command despawned panics (Bevy error B0003); remove and despawn do not.
ApplyCommand(st, c) ==
    CASE c.op = "spawn" ->
            [st EXCEPT !.recs = Append(@, c.rec), !.alive = Append(@, TRUE)]
      [] c.op = "despawn" ->
            [st EXCEPT !.alive[c.ent] = FALSE]
      [] c.op = "insert" ->
            IF st.alive[c.ent]
            THEN [st EXCEPT !.recs[c.ent] = InsertComponent(@, c.msg)]
            ELSE [st EXCEPT !.crashed = TRUE]
      [] c.op = "player" ->
            IF st.alive[c.ent]
            THEN [st EXCEPT !.recs[c.ent].handle = c.handle]
            ELSE [st EXCEPT !.crashed = TRUE]
      [] c.op = "remove" ->
            IF st.alive[c.ent]
            THEN [st EXCEPT !.recs[c.ent].save = NoSave]
            ELSE st

RECURSIVE ApplyFrom(_, _, _)
ApplyFrom(st, cmds, i) ==
    IF i > Len(cmds) \/ st.crashed THEN st
    ELSE ApplyFrom(ApplyCommand(st, cmds[i]), cmds, i + 1)

RECURSIVE Compact(_, _, _)
Compact(recs, alive, i) ==
    IF i > Len(recs) THEN <<>>
    ELSE (IF alive[i] THEN <<recs[i]>> ELSE <<>>) \o Compact(recs, alive, i + 1)

\* apply_system_buffers: the frame's commands, in system order
ApplyCommands(W, cmds) ==
    LET st == ApplyFrom([recs |-> W, alive |-> [i \in 1..Len(W) |-> TRUE],
                         crashed |-> FALSE], cmds, 1)
    IN [world |-> Compact(st.recs, st.alive, 1), crashed |-> st.crashed]


\* ---------------------------------------------------------------- transport
\* MatchboxSocket::update_peers: drain peer_state_rx into the peers map and
\* report each entry whose state changed.
RECURSIVE socket_update_peers(_, _, _)
socket_update_peers(pm, ev, i) ==
    IF i > Len(ev) THEN [peers |-> pm, changes |-> <<>>]
    ELSE LET e == ev[i]
             rest == socket_update_peers([pm EXCEPT ![e.id] = e.st], ev, i + 1)
         IN [peers |-> rest.peers,
             changes |-> (IF pm[e.id] # e.st THEN <<e>> ELSE <<>>) \o rest.changes]

RECURSIVE SortedSeq(_)
SortedSeq(S) ==
    IF S = {} THEN <<>>
    ELSE LET m == CHOOSE x \in S : \A y \in S : x <= y
         IN <<m>> \o SortedSeq(S \ {m})

\* SocketExt::send_p2p_message: one packet on channel 1 to one peer
send_p2p_message(to, m) == [to |-> to, msg |-> m]

\* ---------------------------------------------------------------- lobby systems
\* a set_local_metadata that takes the transport identifier as the tab identity
\* on every lobby entry and stores it
set_local_metadata_regenerating(W, id, tabst, stored) ==
    IF LocalIdx(W) = {} /\ id # NoId
    THEN [cmds |-> <<SpawnCmd(NewRecord(id, TRUE, id, stored))>>,
          tabStore |-> id, spawned |-> TRUE]
    ELSE [cmds |-> <<>>, tabStore |-> tabst, spawned |-> FALSE]

\* a set_local_metadata that does not look for an existing local record
set_local_metadata_unguarded(W, id, tabst, stored) ==
    IF id # NoId
    THEN LET tab == IF tabst # NoTab THEN tabst ELSE id
         IN [cmds |-> <<SpawnCmd(NewRecord(id, TRUE, tab, stored))>>,
             tabStore |-> tab, spawned |-> TRUE]
    ELSE [cmds |-> <<>>, tabStore |-> tabst, spawned |-> FALSE]

set_local_metadata(W, id, tabst, stored) ==
    IF LocalIdx(W) = {} /\ id # NoId
    THEN LET tab == IF tabst # NoTab THEN tabst ELSE id
         IN [cmds |-> <<SpawnCmd(NewRecord(id, TRUE, tab, stored))>>,
             tabStore |-> tab, spawned |-> TRUE]
    ELSE [cmds |-> <<>>, tabStore |-> tabst, spawned |-> FALSE]

\* get_cookie_map: the tabs the cookie has an entry for
CookieKeys(map) == {t \in Ids : map[t] # NoInfo}

\* what map.values().next() can yield: any entry of the map (a HashMap has no
\* order of its own), nothing when the map is empty
FirstValues(map) == IF CookieKeys(map) = {} THEN {NoTab} ELSE CookieKeys(map)

\* set_local_property: the local record without the property takes the cookie's
\* entry for its tab and nothing is written; without an entry it takes the value
\* of another entry (pick), or the default, and writes that under its own tab
set_local_property(W, map, pick) ==
    LET c == {i \in LocalIdx(W) : W[i].info = NoInfo /\ W[i].tab # NoTab}
    IN IF c # {}
       THEN LET i == CHOOSE i \in c : \A j \in c : i <= j
                tab_id == W[i].tab
                found == map[tab_id] # NoInfo
                value == IF found THEN map[tab_id]
                         ELSE IF pick # NoTab THEN map[pick] ELSE DefaultInfo
            IN [cmds |-> <<InsertCmd(i, InfoMsg(value))>>,
                map |-> IF found THEN map ELSE [map EXCEPT ![tab_id] = value]]
       ELSE [cmds |-> <<>>, map |-> map]

\* update_local_property: a changed local property is written under the local
\* tab's key; changed is Changed<T> as this system sees it
update_local_property(W, changed, map) ==
    LET c == {i \in LocalIdx(W) : W[i].info # NoInfo /\ W[i].tab # NoTab}
    IN IF changed /\ c # {}
       THEN LET i == CHOOSE i \in c : \A j \in c : i <= j
            IN [map EXCEPT ![W[i].tab] = W[i].info]
       ELSE map

\* ui: the name field and the ready checkbox, each through maybe_mutate; click
\* and name are this frame's input (name = NoInfo: nothing typed)
ui_typed(W, click, name) ==
    LET c == {i \in LocalIdx(W) : W[i].info # NoInfo}
    IN IF c = {} THEN W
       ELSE LET i == CHOOSE i \in c : TRUE
                working_name == IF name # NoInfo THEN name ELSE W[i].info
                working_version == IF click THEN ~W[i].ready ELSE W[i].ready
            IN [W EXCEPT ![i].info = working_name, ![i].ready = working_version]

\* ui in a frame without a keystroke
ui(W, click) == ui_typed(W, click, NoInfo)

\* an update_peers that polls the socket and spawns the records but greets no one
update_peers_silent(W, Wseen, pm, ev) ==
    IF Cardinality(CompleteLocalIdx(W)) # 1
    THEN [peers |-> pm, evq |-> ev, cmds |-> <<>>, sends |-> <<>>]
    ELSE LET ch == socket_update_peers(pm, ev, 1).changes
             Connected(e) == e.st = "C"
             cs == SelectSeq(ch, Connected)
         IN [peers |-> socket_update_peers(pm, ev, 1).peers, evq |-> <<>>,
             cmds |-> [i \in 1..Len(cs) |-> SpawnCmd(NewRecord(cs[i].id, FALSE, NoTab, NoSave))],
             sends |-> <<>>]

\* an update_peers that polls the socket whether or not the local record is
\* complete: it spawns and despawns records, and greets only when it can
update_peers_unguarded(W, Wseen, pm, ev) ==
    LET polled == socket_update_peers(pm, ev, 1)
        ch == polled.changes
        has_me == Cardinality(CompleteLocalIdx(W)) = 1
        Cmds(e) ==
            IF e.st = "C"
            THEN <<SpawnCmd(NewRecord(e.id, FALSE, NoTab, NoSave))>>
            ELSE IF FindEntity(W, e.id) # 0
                 THEN <<DespawnCmd(FindEntity(W, e.id))>>
                 ELSE <<>>
        Sends(e) ==
            IF e.st = "C" /\ has_me
            THEN LET me == Wseen[CHOOSE i \in CompleteLocalIdx(W) : TRUE]
                 IN <<send_p2p_message(e.id, TabMsg(me.tab)),
                      send_p2p_message(e.id, ReadyMsg(me.ready)),
                      send_p2p_message(e.id, SaveMsg(me.save)),
                      send_p2p_message(e.id, InfoMsg(me.info))>>
            ELSE <<>>
    IN [peers |-> polled.peers, evq |-> <<>>,
        cmds |-> Concat([i \in 1..Len(ch) |-> Cmds(ch[i])], 1),
        sends |-> Concat([i \in 1..Len(ch) |-> Sends(ch[i])], 1)]

update_peers(W, Wseen, pm, ev) ==
    IF Cardinality(CompleteLocalIdx(W)) # 1
    THEN [peers |-> pm, evq |-> ev, cmds |-> <<>>, sends |-> <<>>]
    ELSE LET me == Wseen[CHOOSE i \in CompleteLocalIdx(W) : TRUE]
             polled == socket_update_peers(pm, ev, 1)
             ch == polled.changes
             Cmds(e) ==
                 IF e.st = "C"
                 THEN <<SpawnCmd(NewRecord(e.id, FALSE, NoTab, NoSave))>>
                 ELSE IF FindEntity(W, e.id) # 0
                      THEN <<DespawnCmd(FindEntity(W, e.id))>>
                      ELSE <<>>
             Sends(e) ==
                 IF e.st = "C"
                 THEN <<send_p2p_message(e.id, TabMsg(me.tab)),
                        send_p2p_message(e.id, ReadyMsg(me.ready)),
                        send_p2p_message(e.id, SaveMsg(me.save)),
                        send_p2p_message(e.id, InfoMsg(me.info))>>
                 ELSE <<>>
         IN [peers |-> polled.peers, evq |-> <<>>,
             cmds |-> Concat([i \in 1..Len(ch) |-> Cmds(ch[i])], 1),
             sends |-> Concat([i \in 1..Len(ch) |-> Sends(ch[i])], 1)]

\* a broadcast without change detection: both messages in every frame
broadcast_continuous(W, pm, infoChanged, readyChanged) ==
    LET li == LocalIdx(W)
        me == W[CHOOSE i \in li : TRUE]
        msgs == (IF li # {} /\ me.info # NoInfo THEN <<InfoMsg(me.info)>> ELSE <<>>)
                \o (IF li # {} THEN <<ReadyMsg(me.ready)>> ELSE <<>>)
        to == SortedSeq(ConnectedPeers(pm))
    IN Concat([m \in 1..Len(msgs) |->
                 [k \in 1..Len(to) |-> send_p2p_message(to[k], msgs[m])]], 1)

\* messages of broadcast_my_info_changes: Changed<UserInfo>, then Changed<IsReady>
broadcast_my_info_changes(W, pm, infoChanged, readyChanged) ==
    LET li == LocalIdx(W)
        me == W[CHOOSE i \in li : TRUE]
        msgs == (IF li # {} /\ infoChanged /\ me.info # NoInfo
                 THEN <<InfoMsg(me.info)>> ELSE <<>>)
                \o (IF li # {} /\ readyChanged THEN <<ReadyMsg(me.ready)>> ELSE <<>>)
        to == SortedSeq(ConnectedPeers(pm))
    IN Concat([m \in 1..Len(msgs) |->
                 [k \in 1..Len(to) |-> send_p2p_message(to[k], msgs[m])]], 1)

receive_from_peers(W, backlog) ==
    LET Known(m) == FindEntity(W, m.from) # 0
        Cmd(m) ==
            IF ~Known(m) THEN <<>>
            ELSE IF m.msg.kind = "Undecodable" THEN <<>>
            ELSE IF m.msg.kind = "GameSave" /\ m.msg.save = NoSave
                 THEN <<RemoveSaveCmd(FindEntity(W, m.from))>>
                 ELSE <<InsertCmd(FindEntity(W, m.from), m.msg)>>
        Retain(m) == ~Known(m)
    IN [cmds |-> Concat([i \in 1..Len(backlog) |-> Cmd(backlog[i])], 1),
        messages |-> SelectSeq(backlog, Retain)]

check_waiting_on(W, id, pm, old) ==
    IF id # NoId
    THEN LET connected_ids == ConnectedPeers(pm) \cup {id}
             players_we_have_heard_from ==
                 {W[i].id : i \in {j \in 1..Len(W) : W[j].tab # NoTab}}
         IN [present |-> TRUE, ids |-> connected_ids \ players_we_have_heard_from]
    ELSE old

\* a start condition that also asks for a record besides the local one
trigger_with_company(W, wo) ==
    /\ wo.present
    /\ wo.ids = {}
    /\ Len(W) > 1
    /\ LocalIdx(W) # {}
    /\ \A i \in 1..Len(W) : W[i].ready

trigger_game_start(W, wo) ==
    /\ wo.present
    /\ wo.ids = {}
    /\ Len(W) > 0
    /\ LocalIdx(W) # {}
    /\ \A i \in 1..Len(W) : W[i].ready

\* a reduce closure that leaves a timestamp tie to whichever pair came first
BetterSaveKeepFirst(acc, x) ==
    IF acc.save.ts >= x.save.ts THEN acc ELSE x

\* the closure of the reduce in find_best_game_save, on (peer id, save) pairs
BetterSave(acc, x) ==
    IF acc.save.ts > x.save.ts THEN acc
    ELSE IF acc.save.ts < x.save.ts THEN x
    ELSE IF acc.id > x.id THEN acc
    ELSE x

RECURSIVE Reduce(_, _, _)
Reduce(s, acc, i) ==
    IF i > Len(s) THEN acc ELSE Reduce(s, BetterSave(acc, s[i]), i + 1)

\* filter_map + reduce + map of find_best_game_save; NoSave when no record
\* holds a snapshot
BestSave(W) ==
    LET HasSave(r) == r.save # NoSave
        saves == SelectSeq(W, HasSave)
    IN IF Len(saves) = 0 THEN NoSave ELSE Reduce(saves, saves[1], 2).save

\* main.rs lobby: the closure of the reduce over gamesaves.drain(), on
\* (peer id, optional save) pairs
BetterStaged(acc, x) ==
    IF acc.save # NoSave /\ x.save # NoSave
    THEN IF acc.save.ts > x.save.ts THEN acc
         ELSE IF acc.save.ts < x.save.ts THEN x
         ELSE IF acc.id > x.id THEN acc
         ELSE x
    ELSE IF acc.save = NoSave /\ x.save # NoSave THEN x
    ELSE acc

RECURSIVE ReduceStaged(_, _, _)
ReduceStaged(s, acc, i) ==
    IF i > Len(s) THEN acc ELSE ReduceStaged(s, BetterStaged(acc, s[i]), i + 1)

\* main.rs lobby: my_gamesave.0 = gamesaves.drain().reduce(..).unwrap().1
StagedBest(s) == ReduceStaged(s, s[1], 2).save

\* HashMap::insert on the staging map
RECURSIVE StageInsert(_, _)
StageInsert(s, e) ==
    IF s = <<>> THEN <<e>>
    ELSE IF Head(s).id = e.id THEN <<e>> \o Tail(s)
    ELSE <<Head(s)>> \o StageInsert(Tail(s), e)

find_best_game_save(W) ==
    LET best_save == BestSave(W)
    IN IF best_save # NoSave
       THEN [best |-> best_save,
             cmds |-> <<InsertCmd(CHOOSE i \in LocalIdx(W) : TRUE, SaveMsg(best_save))>>]
       ELSE [best |-> NoSave, cmds |-> <<>>]

\* the player list left in the order the query yields it
InsertUnsorted(W, sorted, e) == Append(sorted, e)

\* slice::sort_by_key (stable) of entity indices by transport identifier
RECURSIVE InsertSorted(_, _, _)
InsertSorted(W, sorted, e) ==
    IF sorted = <<>> THEN <<e>>
    ELSE IF W[Head(sorted)].id <= W[e].id
         THEN <<Head(sorted)>> \o InsertSorted(W, Tail(sorted), e)
         ELSE <<e>> \o sorted

RECURSIVE SortByPeerId(_, _)
SortByPeerId(W, n) ==
    IF n = 0 THEN <<>> ELSE InsertSorted(W, SortByPeerId(W, n - 1), n)

\* lobby: the player list handed to the session builder, in handle order
lobby(W) ==
    LET local_peer_id == W[CHOOSE i \in LocalIdx(W) : TRUE].id
        socket_players == SortByPeerId(W, Len(W))
    IN [num_players |-> Len(W),
        players |-> [i \in 1..Len(socket_players) |->
                       [id |-> W[socket_players[i]].id,
                        type |-> IF W[socket_players[i]].id = local_peer_id
                                 THEN "Local" ELSE "Remote",
                        handle |-> i - 1]],
        cmds |-> [i \in 1..Len(socket_players) |-> PlayerCmd(socket_players[i], i - 1)]]


\* ---------------------------------------------------------------- state machine
NoSession == [active |-> FALSE, num_players |-> 0, players |-> <<>>]

NoStart == [n |-> 0, self |-> NoId, conn |-> {}, recs |-> <<>>, unapplied |-> {},
            best |-> NoSave, arbitrations |-> 0, assignments |-> 0, sessions |-> 0]

\* start_matchbox_socket: a socket with no identifier and no peers yet
NoPeers == [i \in Ids |-> "-"]

\* ------------------------------------------------- fixed-point vectors
\* Fixed = I20F12: a 32-bit two's-complement bit pattern with 12 fraction bits.
\* A number is modelled by its bit pattern, an integer in MinBits..MaxBits; the
\* operators below work on the integer part (20 bits) and the fraction (12
\* bits) separately, so that no intermediate value leaves 32 bits.
FracBits == 12
One == 4096
IntSpan == 1048576
IntHalf == 524288
MaxBits == 2147483647
MinBits == (-2147483647) - 1

IntPart(a) == a \div One
FracPart(a) == a % One

\* the low 20 bits of an integer part, read as a signed number
WrapInt(i) == ((i + IntHalf) % IntSpan) - IntHalf
FitsInt(i) == i >= -IntHalf /\ i < IntHalf

\* the wrapped bit pattern and the overflow flag, as the overflowing_* methods
\* of the fixed crate return them
Pack(i, f) == [bits |-> WrapInt(i) * One + f, overflow |-> ~FitsInt(i)]

overflowing_add(a, b) ==
    LET f == FracPart(a) + FracPart(b)
    IN Pack(IntPart(a) + IntPart(b) + (f \div One), f % One)

overflowing_sub(a, b) ==
    LET f == FracPart(a) - FracPart(b)
    IN Pack(IntPart(a) - IntPart(b) + (f \div One), f % One)

overflowing_neg(a) == overflowing_sub(0, a)

\* the 64-bit product shifted right by 12 bits (rounding towards minus infinity)
overflowing_mul(a, b) ==
    LET ai == IntPart(a)
        af == FracPart(a)
        bi == IntPart(b)
        bf == FracPart(b)
        ah == ai \div 1024
        al == ai % 1024
        bh == bi \div 1024
        bl == bi % 1024
        s1 == ai * bf
        s2 == af * bi
        t == FracPart(s1) + FracPart(s2) + ((af * bf) \div One)
        J == (ah * bl + al * bh) * 1024 + al * bl + IntPart(s1) + IntPart(s2) + (t \div One)
        top == ah * bh + (J \div IntSpan)
        low == J % IntSpan
    IN [bits |-> WrapInt(low) * One + (t % One),
        overflow |-> ~((top = 0 /\ low < IntHalf) \/ (top = -1 /\ low >= IntHalf))]

\* integer square root by bisection: the largest r in lo..hi with r * r <= n
RECURSIVE isqrt_in(_, _, _)
isqrt_in(n, lo, hi) ==
    IF lo = hi THEN lo
    ELSE LET mid == (lo + hi + 1) \div 2
         IN IF mid * mid <= n THEN isqrt_in(n, mid, hi) ELSE isqrt_in(n, lo, mid - 1)

\* FixedSqrt::sqrt of a non-negative number: the largest y with y * y <= n * 2^12
sqrt(n) ==
    LET yi == isqrt_in(n, 0, 46340)
        g == n - yi * yi
        Below(f) == g >= 131072 \/ One * g >= 128 * yi * f + f * f
        yf == CHOOSE f \in 0..63 : Below(f) /\ (f = 63 \/ ~Below(f + 1))
    IN yi * 64 + yf

\* long division in base 64: the quotient digits of the number with the given
\* digits (most significant first) by d, r being the running remainder
RECURSIVE LongDiv(_, _, _)
LongDiv(digits, d, r) ==
    IF digits = <<>> THEN <<>>
    ELSE LET n == r * 64 + Head(digits)
         IN <<n \div d>> \o LongDiv(Tail(digits), d, n % d)

\* a / d for a divisor 0 < d < 2^25: the 64-bit quotient of a * 2^12 by d,
\* rounded towards zero
overflowing_div(a, d) ==
    LET neg == a < 0
        mi == IF ~neg THEN IntPart(a)
              ELSE IF FracPart(a) = 0 THEN -IntPart(a) ELSE -IntPart(a) - 1
        mf == IF ~neg \/ FracPart(a) = 0 THEN FracPart(a) ELSE One - FracPart(a)
        q == LongDiv(<<mi \div 262144, (mi \div 4096) % 64, (mi \div 64) % 64, mi % 64,
                       mf \div 64, mf % 64, 0, 0>>, d, 0)
        qf == q[7] * 64 + q[8]
        im == q[6] + q[5] * 64 + q[4] * 4096 + (q[3] % 4) * 262144
        small == q[1] = 0 /\ q[2] = 0 /\ q[3] < 2
        edge == q[1] = 0 /\ q[2] = 0 /\ q[3] = 2 /\ q[4] = 0 /\ q[5] = 0 /\ q[6] = 0 /\ qf = 0
    IN IF ~neg
       THEN [bits |-> WrapInt(im) * One + qf, overflow |-> ~small]
       ELSE [bits |-> WrapInt((-im) - (IF qf > 0 THEN 1 ELSE 0)) * One + ((One - qf) % One),
             overflow |-> ~(small \/ edge)]

\* a vector operation's outcome: failed (the operation panicked), overflow
\* (some step's exact result left the I20F12 range), out (the value returned,
\* a scalar being held in x)
Vec(x, y) == [x |-> x, y |-> y]
Zero == Vec(0, 0)
Outcome(overflow, checked, out) ==
    [failed |-> checked /\ overflow, overflow |-> overflow, out |-> out]

\* the arithmetic operators of Fixed panic on overflow when the build has
\* overflow checks (checked) and wrap otherwise
mul(v, rhs, checked) ==
    LET x == overflowing_mul(v.x, rhs)
        y == overflowing_mul(v.y, rhs)
    IN Outcome(x.overflow \/ y.overflow, checked, Vec(x.bits, y.bits))

add(v, rhs, checked) ==
    LET x == overflowing_add(v.x, rhs.x)
        y == overflowing_add(v.y, rhs.y)
    IN Outcome(x.overflow \/ y.overflow, checked, Vec(x.bits, y.bits))

sub(v, rhs, checked) ==
    LET x == overflowing_sub(v.x, rhs.x)
        y == overflowing_sub(v.y, rhs.y)
    IN Outcome(x.overflow \/ y.overflow, checked, Vec(x.bits, y.bits))

neg(v, checked) ==
    LET x == overflowing_neg(v.x)
        y == overflowing_neg(v.y)
    IN Outcome(x.overflow \/ y.overflow, checked, Vec(x.bits, y.bits))

\* components.rs: x * x + y * y as the arithmetic leaves it
norm_sq_components(v, checked) ==
    LET xx == overflowing_mul(v.x, v.x)
        yy == overflowing_mul(v.y, v.y)
        s == overflowing_add(xx.bits, yy.bits)
    IN Outcome(xx.overflow \/ yy.overflow \/ s.overflow, checked, Vec(s.bits, 0))

\* fixed_point.rs: the same sum, a negative one replaced by zero
norm_sq(v, checked) ==
    LET s == norm_sq_components(v, checked)
    IN [s EXCEPT !.out = Vec(IF s.out.x < 0 THEN 0 ELSE s.out.x, 0)]

\* norm: the square root of the squared length; sqrt panics on a negative number
NormOf(sq) ==
    IF sq.failed THEN sq
    ELSE IF sq.out.x < 0 THEN [sq EXCEPT !.failed = TRUE]
    ELSE [sq EXCEPT !.out = Vec(sqrt(sq.out.x), 0)]

norm(v, checked) == NormOf(norm_sq(v, checked))
norm_components(v, checked) == NormOf(norm_sq_components(v, checked))

\* normalize_or_zero: with a squared length other than zero both components
\* are divided by the length, otherwise self is returned as it is
NormalizeBy(v, sq, checked) ==
    IF sq.failed THEN [sq EXCEPT !.out = v]
    ELSE IF sq.out.x = 0 THEN [sq EXCEPT !.out = v]
    ELSE IF sq.out.x < 0 THEN [sq EXCEPT !.failed = TRUE, !.out = v]
    ELSE LET len == sqrt(sq.out.x)
             x == overflowing_div(v.x, len)
             y == overflowing_div(v.y, len)
         IN Outcome(sq.overflow \/ x.overflow \/ y.overflow, checked, Vec(x.bits, y.bits))

normalize_or_zero(v, checked) == NormalizeBy(v, norm_sq(v, checked), checked)
normalize_or_zero_components(v, checked) ==
    NormalizeBy(v, norm_sq_components(v, checked), checked)

\* The operands the checks draw from: zero, the smallest step, a length whose
\* square rounds to one step, 1.0, the first length whose square leaves the
\* range, 1024.0 (whose square is 2^32 steps), and the two extremes.
Samples == {0, 1, 90, One, 2965824, 4194304, MaxBits, MinBits}
Vecs == {Vec(x, y) : x \in Samples, y \in Samples}

\* no session simulated
NoGame == [checked |-> FALSE, diag |-> 0, op |-> "none", t |-> 0, input |-> 0,
           pos |-> Zero, move_dir |-> Zero, bullet_ready |-> TRUE, ready0 |-> TRUE,
           old_pos |-> Zero, old_dir |-> Zero,
           dir |-> Zero, fire |-> FALSE, moved |-> FALSE, spawned |-> FALSE,
           hold |-> 0, shots |-> 0, failed |-> FALSE]

NoFx == [checked |-> FALSE, v |-> Zero, rhs |-> 0, op |-> "none", file |-> "-",
         res |-> Outcome(FALSE, FALSE, Zero)]

InitWith(kinds) ==
    /\ kind = kinds
    /\ gstate = [p \in Peers |-> "Matchmaking"]
    /\ sockId = [p \in Peers |-> NoId]
    /\ usedIds = {}
    /\ chanTaken = [p \in Peers |-> FALSE]
    /\ peers = [p \in Peers |-> NoPeers]
    /\ evq = [p \in Peers |-> <<>>]
    /\ links = {}
    /\ met = {}
    /\ net = [p \in Peers |-> [q \in Peers |-> <<>>]]
    /\ messages = [p \in Peers |-> <<>>]
    /\ world = [p \in Peers |-> <<>>]
    /\ waitingOn = [p \in Peers |-> [present |-> FALSE, ids |-> {}]]
    /\ storedSave = [p \in Peers |-> NoSave]
    /\ tabStore = [p \in Peers |-> NoTab]
    /\ fresh = [p \in Peers |-> [ready |-> FALSE, info |-> FALSE, prop |-> FALSE]]
    /\ cookies = [p \in Peers |-> NoCookies]
    /\ fx = NoFx
    /\ game = NoGame
    /\ toggles = [p \in Peers |-> MaxToggles]
    /\ opens = [p \in Peers |-> 0]
    /\ session = [p \in Peers |-> NoSession]
    /\ gamesaves = [p \in Peers |-> <<>>]
    /\ start = [p \in Peers |-> NoStart]

\* one peer running the whole program, one remote peer
Init ==
    InitWith([p \in Peers |-> IF p = 1 THEN "full" ELSE IF p = 2 THEN "remote" ELSE "closed"])

\* a run condition that lets the lobby systems run in every state but the crash
in_state_always(p, s) == gstate[p] # "Crashed"

\* run_if(in_state(GameState::...))
in_state(p, s) == gstate[p] = s

\* the next identifier the signalling server hands out (a fresh Uuid)
NextId == CHOOSE i \in Ids \ usedIds : \A j \in Ids \ usedIds : i <= j

AssignId(p) ==
    /\ kind[p] = "full"
    /\ gstate[p] = "Matchmaking"
    /\ sockId[p] = NoId
    /\ usedIds # Ids
    /\ sockId' = [sockId EXCEPT ![p] = NextId]
    /\ usedIds' = usedIds \cup {NextId}
    /\ UNCHANGED <<kind, game, fx, cookies, gamesaves, gstate, chanTaken, peers, evq, links, met, net, messages, world,
                   waitingOn, storedSave, tabStore, fresh, toggles, opens, session, start>>

\* two sockets in the room get connected; each side is told of the other
Connect(p, q) ==
    /\ p < q
    /\ sockId[p] # NoId /\ sockId[q] # NoId
    /\ gstate[p] # "Crashed" /\ gstate[q] # "Crashed"
    /\ {sockId[p], sockId[q]} \notin met
    /\ links' = links \cup {{p, q}}
    /\ met' = met \cup {{sockId[p], sockId[q]}}
    /\ evq' = [evq EXCEPT ![p] = Append(@, [id |-> sockId[q], st |-> "C"]),
                          ![q] = Append(@, [id |-> sockId[p], st |-> "C"])]
    /\ UNCHANGED <<kind, game, fx, cookies, gamesaves, gstate, sockId, usedIds, chanTaken, peers, net, messages, world,
                   waitingOn, storedSave, tabStore, fresh, toggles, opens, session, start>>

\* what p polls from channel 1 this frame: a prefix of each sender's packets
Polled(p, k) ==
    Concat([q \in 1..NPeers |-> IF q = p THEN <<>> ELSE SubSeq(net[q][p], 1, k[q])], 1)

NoPoll == [q \in Peers |-> 0]

\* the most packets any one sender has on its way to p
MaxPending(p) ==
    LET lens == {Len(net[q][p]) : q \in Peers \ {p}}
    IN CHOOSE n \in lens : \A m \in lens : m <= n

PollChoices(p) ==
    {k \in [Peers -> 0..MaxPending(p)] :
        \A q \in Peers : k[q] <= (IF q = p THEN 0 ELSE Len(net[q][p]))}

\* everything that has arrived
PollAll(p) == [q \in Peers |-> IF q = p THEN 0 ELSE Len(net[q][p])]

\* packets p sends this frame, put on the channels of the peers they address
Routed(p, sends, k) ==
    [s \in Peers |->
        IF s = p
        THEN [r \in Peers |->
                IF r # p /\ {p, r} \in links /\ kind[r] = "full"
                THEN LET To(x) == x.to = sockId[r]
                         mine == SelectSeq(sends, To)
                     IN net[p][r] \o [i \in 1..Len(mine) |->
                                        [from |-> sockId[p], msg |-> mine[i].msg]]
                ELSE net[p][r]]
        ELSE [r \in Peers |->
                IF r = p THEN SubSeq(net[s][p], k[s] + 1, Len(net[s][p]))
                ELSE net[s][r]]]

\* One frame of the Update schedule in GameState::Matchmaking.
\*   click      the ready checkbox is clicked this frame
\*   uiFirstU   ui runs before update_peers
\*   uiFirstT   ui runs before trigger_game_start
\*   uFirstC    update_peers runs before check_waiting_on
\*   uFirstT    update_peers runs before trigger_game_start
\*   k          packets polled from each sender
\*   typing     the keystroke: name (the text field's new content, or NoInfo),
\*              propFirst (update_local_property runs before ui), pick (the
\*              entry map.values().next() yields in set_local_property)
TypedOutcome(p, click, typing, uiFirstU, uiFirstT, uFirstC, uFirstT, k) ==
    LET W == world[p]
        Wui == ui_typed(W, click, typing.name)
        readyEdited == ui(W, click) # W
        infoEdited == ui_typed(W, FALSE, typing.name) # W
        backlog == messages[p] \o Polled(p, k)
        slm == set_local_metadata(W, sockId[p], tabStore[p], storedSave[p])
        slp == set_local_property(W, cookies[p], typing.pick)
        ulp == update_local_property(IF typing.propFirst THEN W ELSE Wui,
                                     fresh[p].prop \/ (infoEdited /\ ~typing.propFirst),
                                     slp.map)
        up == update_peers(W, IF uiFirstU THEN Wui ELSE W, peers[p], evq[p])
        bc == broadcast_my_info_changes(Wui, up.peers, fresh[p].info \/ infoEdited,
                                        fresh[p].ready \/ readyEdited)
        rx == receive_from_peers(W, backlog)
        wo == check_waiting_on(W, sockId[p], IF uFirstC THEN up.peers ELSE peers[p],
                               waitingOn[p])
        fire == trigger_game_start(IF uiFirstT THEN Wui ELSE W, waitingOn[p])
        fb == find_best_game_save(W)
        lb == lobby(W)
        cmds == up.cmds \o slm.cmds \o slp.cmds \o rx.cmds
                \o (IF fire THEN fb.cmds \o lb.cmds ELSE <<>>)
        applied == ApplyCommands(Wui, cmds)
        panic == applied.crashed \/ (fire /\ chanTaken[p])
        unapplied == {m.from : m \in {x \in Range(backlog) \cup
                                       UNION {Range(net[q][p]) : q \in Peers \ {p}} :
                                         x.msg.kind = "GameSave" /\ x.msg.save # NoSave}}
    IN [gstate |-> IF panic THEN "Crashed" ELSE IF fire THEN "InGame" ELSE gstate[p],
        chanTaken |-> chanTaken[p] \/ fire,
        peers |-> up.peers,
        evq |-> up.evq,
        net |-> Routed(p, up.sends \o bc, k),
        sent |-> bc,
        messages |-> rx.messages,
        world |-> IF panic THEN Wui ELSE applied.world,
        waitingOn |-> wo,
        tabStore |-> slm.tabStore,
        fresh |-> [ready |-> slm.spawned, info |-> slp.cmds # <<>>,
                   prop |-> slp.cmds # <<>> \/ (infoEdited /\ typing.propFirst)],
        cookies |-> ulp,
        toggles |-> IF click THEN toggles[p] - 1 ELSE toggles[p],
        session |-> IF fire /\ ~panic
                    THEN [active |-> TRUE, num_players |-> lb.num_players,
                          players |-> lb.players]
                    ELSE session[p],
        start |-> IF fire
                  THEN [n |-> start[p].n + 1,
                        self |-> sockId[p],
                        conn |-> ConnectedPeers(IF uFirstT THEN up.peers ELSE peers[p]),
                        recs |-> IF uiFirstT THEN Wui ELSE W,
                        unapplied |-> unapplied,
                        best |-> fb.best,
                        arbitrations |-> start[p].arbitrations + 1,
                        assignments |-> start[p].assignments + 1,
                        sessions |-> start[p].sessions + (IF panic THEN 0 ELSE 1)]
                  ELSE start[p]]

\* a frame without a keystroke; the cookie then holds no entry but the local
\* tab's, so that map.values().next() has one outcome
NoTyping(p) ==
    [name |-> NoInfo, propFirst |-> TRUE,
     pick |-> CHOOSE t \in FirstValues(cookies[p]) : \A u \in FirstValues(cookies[p]) : t <= u]

FrameOutcome(p, click, uiFirstU, uiFirstT, uFirstC, uFirstT, k) ==
    TypedOutcome(p, click, NoTyping(p), uiFirstU, uiFirstT, uFirstC, uFirstT, k)

\* the end of the frame: every variable of p takes the value the systems computed
Commit(p, o) ==
    /\ gstate' = [gstate EXCEPT ![p] = o.gstate]
    /\ chanTaken' = [chanTaken EXCEPT ![p] = o.chanTaken]
    /\ peers' = [peers EXCEPT ![p] = o.peers]
    /\ evq' = [evq EXCEPT ![p] = o.evq]
    /\ net' = o.net
    /\ messages' = [messages EXCEPT ![p] = o.messages]
    /\ world' = [world EXCEPT ![p] = o.world]
    /\ waitingOn' = [waitingOn EXCEPT ![p] = o.waitingOn]
    /\ tabStore' = [tabStore EXCEPT ![p] = o.tabStore]
    /\ fresh' = [fresh EXCEPT ![p] = o.fresh]
    /\ toggles' = [toggles EXCEPT ![p] = o.toggles]
    /\ session' = [session EXCEPT ![p] = o.session]
    /\ start' = [start EXCEPT ![p] = o.start]
    /\ cookies' = [cookies EXCEPT ![p] = o.cookies]
    /\ UNCHANGED <<kind, game, fx, gamesaves, sockId, usedIds, links, met, storedSave, opens>>

\* the frame
Frame(p, click, uiFirstU, uiFirstT, uFirstC, uFirstT, k) ==
    \E o \in {FrameOutcome(p, click, uiFirstU, uiFirstT, uFirstC, uFirstT, k)} :
       Commit(p, o)

Tick(p) ==
    /\ kind[p] = "full"
    /\ in_state(p, "Matchmaking")
    /\ \E click \in BOOLEAN, uiFirstU \in BOOLEAN, uiFirstT \in BOOLEAN,
          uFirstC \in BOOLEAN, uFirstT \in BOOLEAN, k \in PollChoices(p) :
         /\ click => toggles[p] > 0 /\ ui(world[p], TRUE) # world[p]
         /\ ~click => uiFirstU /\ uiFirstT
         /\ evq[p] = <<>> => uFirstC /\ uFirstT
         /\ ~(uiFirstU /\ uFirstT /\ ~uiFirstT)
         /\ ~(~uiFirstU /\ uiFirstT /\ ~uFirstT)
         /\ Frame(p, click, uiFirstU, uiFirstT, uFirstC, uFirstT, k)

\* One frame in GameState::InGame: of the lobby systems only receive_from_peers
\* has no run condition.
TickInGame(p) ==
    /\ kind[p] = "full"
    /\ gstate[p] = "InGame"
    /\ \E k \in PollChoices(p) :
         LET rx == receive_from_peers(world[p], messages[p] \o Polled(p, k))
             applied == ApplyCommands(world[p], rx.cmds)
         IN /\ k # NoPoll
            /\ messages' = [messages EXCEPT ![p] = rx.messages]
            /\ world' = [world EXCEPT ![p] = applied.world]
            /\ net' = Routed(p, <<>>, k)
    /\ UNCHANGED <<kind, game, fx, cookies, gamesaves, gstate, sockId, usedIds, chanTaken, peers, evq, links, met,
                   waitingOn, storedSave, tabStore, fresh, toggles, opens, session, start>>

\* an engine that reports Disconnected whenever a session runs
GgrsAlwaysDisconnected(p) == session[p].active

\* The rollback engine reports Disconnected for a remote player whose
\* connection is gone.
GgrsDisconnected(p) ==
    \E i \in 1..Len(session[p].players) :
        /\ session[p].players[i].type = "Remote"
        /\ ~\E q \in Peers : sockId[q] = session[p].players[i].id /\ {p, q} \in links

\* the socket of p is dropped: its connections end, its packets are gone
SocketDropped(p) ==
    /\ sockId' = [sockId EXCEPT ![p] = NoId]
    /\ chanTaken' = [chanTaken EXCEPT ![p] = FALSE]
    /\ peers' = [peers EXCEPT ![p] = NoPeers]
    /\ links' = {l \in links : p \notin l}
    /\ evq' = [q \in Peers |->
                 IF q = p THEN <<>>
                 ELSE IF {p, q} \in links
                      THEN Append(evq[q], [id |-> sockId[p], st |-> "D"])
                      ELSE evq[q]]
    /\ net' = [s \in Peers |-> [r \in Peers |->
                 IF s = p \/ r = p THEN <<>> ELSE net[s][r]]]

\* kill_game_on_disconnect, then OnExit(InGame) cleanup_session and
\* OnEnter(Matchmaking) start_matchbox_socket
KillGame(p) ==
    /\ kind[p] = "full"
    /\ gstate[p] = "InGame"
    /\ GgrsDisconnected(p)
    /\ \E now \in Timestamps :
         storedSave' = [storedSave EXCEPT ![p] = [ts |-> now, by |-> tabStore[p]]]
    /\ gstate' = [gstate EXCEPT ![p] = "Matchmaking"]
    /\ LET Kept(r) == r.handle = NoHandle
       IN world' = [world EXCEPT ![p] = SelectSeq(@, Kept)]
    /\ session' = [session EXCEPT ![p] = NoSession]
    /\ toggles' = [toggles EXCEPT ![p] = MaxToggles]
    /\ SocketDropped(p)
    /\ start' = [start EXCEPT ![p] =
                   [NoStart EXCEPT !.n = start[p].n,
                                   !.arbitrations = start[p].arbitrations,
                                   !.assignments = start[p].assignments,
                                   !.sessions = start[p].sessions]]
    /\ UNCHANGED <<kind, game, fx, cookies, gamesaves, usedIds, met, messages, waitingOn, tabStore, fresh, opens>>

\* ---------------------------------------------------------------- remote peers
\* A remote peer runs the same program; of its state only what decides the
\* packets it sends is kept: its own record, its socket, its checkbox.

\* the remote opens (or reopens) its socket and has its own record; it may
\* hold a snapshot of an earlier session
RemoteOpen(r) ==
    /\ kind[r] = "remote"
    /\ sockId[r] = NoId
    /\ usedIds # Ids
    /\ opens[r] < MaxRemoteOpens
    /\ LET tab == IF tabStore[r] # NoTab THEN tabStore[r] ELSE NextId
       IN /\ \E s \in {NoSave} \cup {[ts |-> t, by |-> tab] : t \in Timestamps} :
               world' = [world EXCEPT ![r] =
                           <<[NewRecord(NextId, TRUE, tab, s) EXCEPT !.info = DefaultInfo]>>]
          /\ tabStore' = [tabStore EXCEPT ![r] = tab]
    /\ sockId' = [sockId EXCEPT ![r] = NextId]
    /\ usedIds' = usedIds \cup {NextId}
    /\ toggles' = [toggles EXCEPT ![r] = MaxToggles]
    /\ opens' = [opens EXCEPT ![r] = @ + 1]
    /\ UNCHANGED <<kind, game, fx, cookies, gamesaves, gstate, chanTaken, peers, evq, links, met, net, messages,
                   waitingOn, storedSave, fresh, session, start>>

\* one frame of the remote: ui, update_peers, broadcast_my_info_changes
RemoteTick(r) ==
    /\ kind[r] = "remote"
    /\ sockId[r] # NoId
    /\ \E click \in BOOLEAN, uiFirstU \in BOOLEAN :
         LET W == world[r]
             Wui == ui(W, click)
             up == update_peers(W, IF uiFirstU THEN Wui ELSE W, peers[r], evq[r])
             bc == broadcast_my_info_changes(Wui, up.peers, FALSE, Wui # W)
         IN /\ click => toggles[r] > 0
            /\ (~click \/ evq[r] = <<>>) => uiFirstU
            /\ click \/ evq[r] # <<>>
            /\ world' = [world EXCEPT ![r] = Wui]
            /\ peers' = [peers EXCEPT ![r] = up.peers]
            /\ evq' = [evq EXCEPT ![r] = <<>>]
            /\ net' = Routed(r, up.sends \o bc, NoPoll)
            /\ toggles' = [toggles EXCEPT ![r] = IF click THEN @ - 1 ELSE @]
    /\ UNCHANGED <<kind, game, fx, cookies, gamesaves, gstate, sockId, usedIds, chanTaken, links, met, messages,
                   waitingOn, storedSave, tabStore, fresh, opens, session, start>>

\* the remote closes its socket (tab reloaded, or its own session ended)
RemoteClose(r) ==
    /\ kind[r] = "remote"
    /\ sockId[r] # NoId
    /\ world' = [world EXCEPT ![r] = <<>>]
    /\ SocketDropped(r)
    /\ UNCHANGED <<kind, game, fx, cookies, gamesaves, gstate, usedIds, met, messages, waitingOn, storedSave,
                   tabStore, fresh, toggles, opens, session, start>>

Next ==
    \/ \E p \in Peers : AssignId(p)
    \/ \E p \in Peers, q \in Peers : Connect(p, q)
    \/ \E p \in Peers : Tick(p)
    \/ \E p \in Peers : TickInGame(p)
    \/ \E p \in Peers : KillGame(p)
    \/ \E r \in Peers : RemoteOpen(r)
    \/ \E r \in Peers : RemoteTick(r)
    \/ \E r \in Peers : RemoteClose(r)

Spec == Init /\ [][Next]_vars

\* ---------------------------------------------------------------- mesh
\* Two peers running the whole program and one remote peer, in the lobby.
\* Frames run their systems in one fixed order and poll everything that has
\* arrived; the remote peer joins once the two know each other; sessions are
\* not ended.  Every behaviour of this specification is a behaviour of the
\* program.
InitMesh ==
    InitWith([p \in Peers |-> IF p <= 2 THEN "full" ELSE IF p = 3 THEN "remote" ELSE "closed"])

TickInOrder(p) ==
    /\ kind[p] = "full"
    /\ in_state(p, "Matchmaking")
    /\ \E click \in BOOLEAN :
         /\ click => toggles[p] > 0 /\ ui(world[p], TRUE) # world[p]
         /\ Frame(p, click, TRUE, TRUE, TRUE, TRUE, PollAll(p))

\* the peers running the whole program know one another
LobbyFormed ==
    \A p \in Peers :
        kind[p] = "full" =>
            /\ waitingOn[p].present /\ waitingOn[p].ids = {}
            /\ Len(world[p]) = Cardinality({q \in Peers : kind[q] = "full"})

\* a remote peer joins a lobby already formed
RemoteJoin(r) == LobbyFormed /\ RemoteOpen(r)

NextMesh ==
    \/ \E p \in Peers : AssignId(p)
    \/ \E p \in Peers, q \in Peers : Connect(p, q)
    \/ \E p \in Peers : TickInOrder(p)
    \/ \E r \in Peers : RemoteJoin(r)
    \/ \E r \in Peers : RemoteTick(r)
    \/ \E r \in Peers : RemoteClose(r)

SpecMesh == InitMesh /\ [][NextMesh]_vars

\* ---------------------------------------------------------------- arbiter and assignor
\* The save arbiter and the player-order assignor as functions of a registry:
\* peer 1 holds a registry of ready, identified records drawn from a bounded
\* set, and the registry is reordered, loses a peer, sees a peer re-join, and
\* is evaluated.

\* registries: the local record and remote records, distinct transport
\* identifiers, each tab on its first socket (tab identity = that identifier)
ArbRecord(id, local, save) ==
    [NewRecord(id, local, id, save) EXCEPT !.ready = TRUE, !.info = DefaultInfo]

SavesOf(tab) == {NoSave} \cup {[ts |-> t, by |-> tab] : t \in Timestamps}

ArbWorlds ==
    UNION {{w \in [1..n -> [id : Ids, local : BOOLEAN, tab : Ids, ready : {TRUE},
                            info : {DefaultInfo},
                            save : UNION {SavesOf(t) : t \in Ids},
                            handle : {NoHandle}]] :
               /\ \A i \in 1..n : w[i] = ArbRecord(w[i].id, i = 1, w[i].save)
               /\ \A i \in 1..n : w[i].save \in SavesOf(w[i].tab)
               /\ \A i, j \in 1..n : i # j => w[i].id # w[j].id} : n \in 1..MaxIds}

\* main.rs lobby: the staging map after each record's GameSave has arrived
StagedFrom(W) == [i \in 1..Len(W) |-> [id |-> W[i].id, save |-> W[i].save]]

InitArb ==
    /\ kind = [p \in Peers |-> IF p = 1 THEN "full" ELSE "closed"]
    /\ gstate = [p \in Peers |-> "Matchmaking"]
    /\ \E w \in ArbWorlds :
         /\ world = [p \in Peers |-> IF p = 1 THEN w ELSE <<>>]
         /\ gamesaves = [p \in Peers |-> IF p = 1 THEN StagedFrom(w) ELSE <<>>]
         /\ sockId = [p \in Peers |-> IF p = 1 THEN w[1].id ELSE NoId]
         /\ tabStore = [p \in Peers |-> IF p = 1 THEN w[1].tab ELSE NoTab]
         /\ storedSave = [p \in Peers |-> IF p = 1 THEN w[1].save ELSE NoSave]
         /\ usedIds = {w[i].id : i \in 1..Len(w)}
         /\ peers = [p \in Peers |->
                       [x \in Ids |-> IF p = 1 /\ \E i \in 2..Len(w) : w[i].id = x
                                      THEN "C" ELSE "-"]]
    /\ chanTaken = [p \in Peers |-> FALSE]
    /\ evq = [p \in Peers |-> <<>>]
    /\ links = {}
    /\ met = {}
    /\ net = [p \in Peers |-> [q \in Peers |-> <<>>]]
    /\ messages = [p \in Peers |-> <<>>]
    /\ waitingOn = [p \in Peers |-> [present |-> p = 1, ids |-> {}]]
    /\ fresh = [p \in Peers |-> [ready |-> FALSE, info |-> FALSE, prop |-> FALSE]]
    /\ cookies = [p \in Peers |-> NoCookies]
    /\ fx = NoFx
    /\ game = NoGame
    /\ toggles = [p \in Peers |-> 0]
    /\ opens = [p \in Peers |-> 0]
    /\ session = [p \in Peers |-> NoSession]
    /\ start = [p \in Peers |-> NoStart]

SwapAt(s, i) ==
    [j \in 1..Len(s) |-> IF j = i THEN s[i + 1] ELSE IF j = i + 1 THEN s[i] ELSE s[j]]

RemoveAt(s, i) == SubSeq(s, 1, i - 1) \o SubSeq(s, i + 1, Len(s))

\* the registry iterates in another order (Query::iter / HashMap::drain give
\* no order): two neighbours change places
Reorder(p) ==
    /\ \E i \in 1..(Len(world[p]) - 1) :
         world' = [world EXCEPT ![p] = SwapAt(@, i)]
    /\ \E g \in {gamesaves[p]} \cup
                  {SwapAt(gamesaves[p], i) : i \in 1..(Len(gamesaves[p]) - 1)} :
         gamesaves' = [gamesaves EXCEPT ![p] = g]
    /\ UNCHANGED <<kind, game, fx, cookies, gstate, sockId, usedIds, chanTaken, peers, evq, links, met, net,
                   messages, waitingOn, storedSave, tabStore, fresh, toggles, opens,
                   session, start>>

\* a remote peer becomes unreachable: its record is despawned (lobby.rs
\* update_peers, main.rs lobby); nothing is taken out of the staging map
Leave(p) ==
    /\ \E i \in 1..Len(world[p]) :
         /\ ~world[p][i].local
         /\ world' = [world EXCEPT ![p] = RemoveAt(@, i)]
         /\ peers' = [peers EXCEPT ![p][world[p][i].id] = "D"]
    /\ UNCHANGED <<kind, game, fx, cookies, gamesaves, gstate, sockId, usedIds, chanTaken, evq, links, met,
                   net, messages, waitingOn, storedSave, tabStore, fresh, toggles, opens,
                   session, start>>

\* a remote peer leaves and re-joins from the same tab: a fresh transport
\* identifier, the same tab identity and snapshot, handshake completed
Rejoin(p) ==
    /\ usedIds # Ids
    /\ \E i \in 1..Len(world[p]) :
         LET old == world[p][i]
             new == [old EXCEPT !.id = NextId]
         IN /\ ~old.local
            /\ world' = [world EXCEPT ![p] = Append(RemoveAt(@, i), new)]
            /\ gamesaves' = [gamesaves EXCEPT ![p] =
                               StageInsert(@, [id |-> new.id, save |-> new.save])]
            /\ peers' = [peers EXCEPT ![p][old.id] = "D", ![p][new.id] = "C"]
    /\ usedIds' = usedIds \cup {NextId}
    /\ UNCHANGED <<kind, game, fx, cookies, gstate, sockId, chanTaken, evq, links, met, net, messages,
                   waitingOn, storedSave, tabStore, fresh, toggles, opens, session, start>>

\* find_best_game_save and lobby run over the registry as it is; what they
\* yield is kept
Evaluate(p) ==
    /\ kind[p] = "full"
    /\ trigger_game_start(world[p], waitingOn[p])
    /\ LET W == world[p]
           fb == find_best_game_save(W)
           lb == lobby(W)
       IN /\ start' = [start EXCEPT ![p] =
                         [n |-> 1, self |-> sockId[p], conn |-> ConnectedPeers(peers[p]),
                          recs |-> W, unapplied |-> {}, best |-> fb.best,
                          arbitrations |-> 1, assignments |-> 1, sessions |-> 1]]
          /\ session' = [session EXCEPT ![p] =
                           [active |-> TRUE, num_players |-> lb.num_players,
                            players |-> lb.players]]
    /\ start'[p] # start[p]
    /\ UNCHANGED <<kind, game, fx, cookies, gamesaves, gstate, sockId, usedIds, chanTaken, peers, evq, links,
                   met, net, messages, world, waitingOn, storedSave, tabStore, fresh,
                   toggles, opens>>

NextArb ==
    \/ \E p \in Peers : Reorder(p)
    \/ \E p \in Peers : Leave(p)
    \/ \E p \in Peers : Rejoin(p)
    \/ \E p \in Peers : Evaluate(p)

SpecArb == InitArb /\ [][NextArb]_vars

\* ---------------------------------------------------------------- start trigger
\* p is in the session its last start trigger began
Started(p) == start[p].self # NoId

RecordOf(recs, x) == {i \in 1..Len(recs) : recs[i].id = x}

\* C1: whenever the start trigger fires on a peer, every peer in the
\* transport's connected set and the peer itself has a record on that peer,
\* ready and with a handshake-confirmed tab identity.
C1_StartObservesAllReachable ==
    \A p \in Peers :
        Started(p) =>
            \A x \in start[p].conn \cup {start[p].self} :
                \E i \in RecordOf(start[p].recs, x) :
                    start[p].recs[i].ready /\ start[p].recs[i].tab # NoTab

\* the trigger of p saw a ready, identified record of every connected peer
SawAllReachable(p) ==
    \A x \in start[p].conn :
        \E i \in RecordOf(start[p].recs, x) :
            start[p].recs[i].ready /\ start[p].recs[i].tab # NoTab


\* C2: while a peer stays InGame after a start, no tick fires the trigger
\* again or builds a second session, and each firing has run the save
\* arbitration and the player-order assignment exactly once.
C2_NoRefireWhileStarted ==
    [][\A p \in Peers :
          /\ start[p].arbitrations = start[p].n
          /\ start[p].assignments = start[p].n
          /\ gstate[p] = "InGame" =>
                /\ start'[p].n = start[p].n
                /\ start'[p].arbitrations = start[p].arbitrations
                /\ start'[p].assignments = start[p].assignments
                /\ start'[p].sessions = start[p].sessions
                /\ gstate'[p] = "InGame" => session'[p] = session[p]]_vars

\* a second session of the same peer, begun by its second firing after the
\* first session ended, with every record still ready
C2_Witness ==
    \E p \in Peers :
        /\ gstate[p] = "InGame" /\ session[p].active
        /\ start[p].n = 2 /\ start[p].sessions = 2
        /\ \A i \in 1..Len(world[p]) : world[p][i].ready

\* C3: the start trigger never fires while a GameSave packet carrying a
\* snapshot, sent by a peer in the connected set, is still in flight, in the
\* backlog or not yet applied to that peer's record (stated for the firings
\* that saw a ready, identified record of every connected peer).
C3_NoFireBeforeSnapshotApplied ==
    \A p \in Peers :
        Started(p) /\ SawAllReachable(p) => start[p].unapplied \cap start[p].conn = {}

\* C10: once a Disconnected event of a peer has been polled and the frame's
\* commands applied, the registry holds no record of that peer.
C10_DisconnectedRecordRemoved ==
    \A p \in Peers :
        kind[p] = "full" /\ gstate[p] # "Crashed" =>
            \A x \in Ids : peers[p][x] = "D" => FindEntity(world[p], x) = 0


\* ---------------------------------------------------------------- agreement
Participants(p) == {session[p].players[i].id : i \in 1..Len(session[p].players)}

HandleMap(p) ==
    {<<session[p].players[i].id, session[p].players[i].handle>> :
        i \in 1..Len(session[p].players)}

\* p and q have each started a session that has the other as a player
StartedTogether(p, q) ==
    /\ p # q
    /\ kind[p] = "full" /\ kind[q] = "full"
    /\ Started(p) /\ Started(q)
    /\ session[p].active /\ session[q].active
    /\ start[q].self \in Participants(p)
    /\ start[p].self \in Participants(q)

\* C4: two peers that start a session with each other select the same
\* canonical snapshot (the same snapshot, or both none).
C4_SameCanonicalSnapshot ==
    \A p \in Peers, q \in Peers :
        StartedTogether(p, q) => start[p].best = start[q].best

\* C5: two peers that start a session with each other give every participant
\* the same handle and have the same number of players.
C5_SameHandleMap ==
    \A p \in Peers, q \in Peers :
        StartedTogether(p, q) =>
            /\ session[p].num_players = session[q].num_players
            /\ HandleMap(p) = HandleMap(q)


\* ---------------------------------------------------------------- arbitration
PermuteSeq(s, f) == [i \in 1..Len(s) |-> s[f[i]]]

Holders(s) == {i \in 1..Len(s) : s[i].save # NoSave}

\* the snapshot of s with the greatest (timestamp, peer identifier)
NewestSnapshot(s) ==
    IF Holders(s) = {} THEN NoSave
    ELSE s[CHOOSE i \in Holders(s) :
               \A j \in Holders(s) :
                   \/ s[j].save.ts < s[i].save.ts
                   \/ s[j].save.ts = s[i].save.ts /\ s[j].id <= s[i].id].save

\* the staged snapshots of the peers p has a record of
KnownStaged(p) ==
    LET Known(e) == FindEntity(world[p], e.id) # 0
    IN SelectSeq(gamesaves[p], Known)

\* C6: the arbiter returns the snapshot with the greatest (timestamp, peer
\* identifier) among those of the records known at trigger time, none when no
\* record holds one; snapshots of peers no longer known take no part.  Stated
\* of find_best_game_save and of the reduce over the staging map of main.rs.
C6_ArbiterPicksNewestKnown ==
    \A p \in Peers :
        kind[p] = "full" /\ LocalIdx(world[p]) # {} =>
            /\ find_best_game_save(world[p]).best = NewestSnapshot(world[p])
            /\ gamesaves[p] # <<>> =>
                   StagedBest(gamesaves[p]) = NewestSnapshot(KnownStaged(p))

\* C7: the arbiter's result is the same for every order in which the same
\* pairs are folded, in find_best_game_save and in the reduce of main.rs.
C7_ArbiterOrderIndependent ==
    \A p \in Peers :
        /\ \A f \in Permutations(1..Len(world[p])) :
               BestSave(PermuteSeq(world[p], f)) = BestSave(world[p])
        /\ gamesaves[p] # <<>> =>
               \A f \in Permutations(1..Len(gamesaves[p])) :
                   StagedBest(PermuteSeq(gamesaves[p], f)) = StagedBest(gamesaves[p])

\* three records, two snapshots with the same timestamp, arbitrated in one
\* order and now held in another
C7_Witness ==
    \E p \in Peers :
        /\ Len(world[p]) = 3 /\ Len(start[p].recs) = 3
        /\ Range(start[p].recs) = Range(world[p])
        /\ start[p].recs # world[p]
        /\ \E i, j \in Holders(world[p]) :
               i # j /\ world[p][i].save.ts = world[p][j].save.ts
        /\ start[p].best = BestSave(world[p])

\* ---------------------------------------------------------------- player order
HandleIn(players, x) ==
    {players[i].handle : i \in {j \in 1..Len(players) : players[j].id = x}}

\* C8: the assignor sorts the identities ascending and gives the i-th one
\* handle i: the handles are pairwise distinct, exactly 0..N-1, and do not
\* depend on the order of the records.
C8_PlayerOrderPureFunction ==
    \A p \in Peers :
        kind[p] = "full" /\ LocalIdx(world[p]) # {} =>
            LET W == world[p]
                lb == lobby(W)
                N == lb.num_players
            IN /\ N = Len(W) /\ Len(lb.players) = N
               /\ {lb.players[i].handle : i \in 1..N} = 0..(N - 1)
               /\ \A i \in 1..N : lb.players[i].handle = i - 1
               /\ \A i, j \in 1..N : i < j => lb.players[i].id < lb.players[j].id
               /\ \A i \in 1..Len(W) :
                      \E c \in Range(lb.cmds) :
                          c.ent = i /\ HandleIn(lb.players, W[i].id) = {c.handle}
               /\ \A f \in Permutations(1..Len(W)) :
                      lobby(PermuteSeq(W, f)).players = lb.players

\* a session over three records that were not created in identifier order
C8_Witness ==
    \E p \in Peers :
        /\ session[p].active /\ session[p].num_players = 3
        /\ start[p].recs = world[p]
        /\ world[p][1].id > world[p][2].id
        /\ session[p].players = lobby(world[p]).players

TabsOf(recs) == {[tab |-> recs[i].tab, save |-> recs[i].save] : i \in 1..Len(recs)}

\* C9: a peer that re-joins with a new transport identifier and the same tab
\* identity, the other participants unchanged, leaves every participant's
\* handle and the winner of the arbitration as they were.
C9_KeyedByTabIdentity ==
    \A p \in Peers :
        session[p].active /\ TabsOf(start[p].recs) = TabsOf(world[p])
        /\ Len(start[p].recs) = Len(world[p]) =>
            /\ \A i \in 1..Len(start[p].recs), j \in 1..Len(world[p]) :
                   start[p].recs[i].tab = world[p][j].tab =>
                       HandleIn(session[p].players, start[p].recs[i].id)
                         = HandleIn(lobby(world[p]).players, world[p][j].id)
            /\ BestSave(world[p]) = start[p].best

\* ---------------------------------------------------------------- handshake
\* the frame of p that polls the queued connection events: update_peers ran
PollsEvents(p) ==
    /\ kind[p] = "full"
    /\ gstate[p] = "Matchmaking"
    /\ Cardinality(CompleteLocalIdx(world[p])) = 1
    /\ evq[p] # <<>>
    /\ evq'[p] = <<>>
    /\ sockId'[p] = sockId[p]

\* the four packets of the handshake, as p's local record me has them
Greeting(p, me, ready) ==
    <<[from |-> sockId[p], msg |-> TabMsg(me.tab)],
      [from |-> sockId[p], msg |-> ReadyMsg(ready)],
      [from |-> sockId[p], msg |-> SaveMsg(me.save)],
      [from |-> sockId[p], msg |-> InfoMsg(me.info)]>>

SnapshotSent(p, q, s) ==
    \/ \E n \in 1..Len(net[p][q]) : net[p][q][n].msg = SaveMsg(s)
    \/ \E n \in 1..Len(messages[q]) :
          messages[q][n] = [from |-> start[p].self, msg |-> SaveMsg(s)]
    \/ \E j \in 1..Len(world[q]) :
          world[q][j].id = start[p].self /\ world[q][j].save = s

\* C12: when the arbitration at the start trigger replaces the snapshot of
\* the local record, a GameSave message carrying the new snapshot is sent to
\* every reachable peer.
C12_SnapshotChangeBroadcast ==
    \A p \in Peers :
        (Started(p) /\ gstate[p] # "Crashed" /\ start[p].best # NoSave) =>
            \A i \in LocalIdx(start[p].recs) :
                start[p].recs[i].save # start[p].best =>
                    \A q \in Peers :
                        (q # p /\ kind[q] = "full" /\ sockId[q] \in start[p].conn
                              /\ {p, q} \in links) =>
                            SnapshotSent(p, q, start[p].best)

\* ---------------------------------------------------------------- message application
\* Peer 1 in the lobby with its local record complete and not ready, so the
\* start trigger does not fire.  Packets of every variant, and packets that
\* do not decode, arrive from the other transport identifiers; any of them
\* may be reported Connected.  Each frame is a whole lobby frame (Frame).
Senders == Ids \ {1}

\* the packet shapes a sender produces: the first sender every variant, the
\* others a tab identity or a packet that does not decode
Packets(x) ==
    IF x = 2
    THEN {TabMsg(NoTab), ReadyMsg(TRUE), ReadyMsg(FALSE), SaveMsg(NoSave),
          SaveMsg([ts |-> 1, by |-> NoTab]), InfoMsg(DefaultInfo), BadMsg}
    ELSE {TabMsg(NoTab), BadMsg}

InitRx ==
    /\ kind = [p \in Peers |-> IF p = 1 THEN "full" ELSE "closed"]
    /\ gstate = [p \in Peers |-> "Matchmaking"]
    /\ sockId = [p \in Peers |-> IF p = 1 THEN 1 ELSE NoId]
    /\ usedIds = {1}
    /\ chanTaken = [p \in Peers |-> FALSE]
    /\ peers = [p \in Peers |-> NoPeers]
    /\ evq = [p \in Peers |-> <<>>]
    /\ links = {}
    /\ met = {}
    /\ net = [p \in Peers |-> [q \in Peers |-> <<>>]]
    /\ messages = [p \in Peers |-> <<>>]
    /\ world = [p \in Peers |->
                  IF p = 1
                  THEN <<[NewRecord(1, TRUE, 1, NoSave) EXCEPT !.info = DefaultInfo]>>
                  ELSE <<>>]
    /\ waitingOn = [p \in Peers |-> [present |-> p = 1, ids |-> {}]]
    /\ storedSave = [p \in Peers |-> NoSave]
    /\ tabStore = [p \in Peers |-> IF p = 1 THEN 1 ELSE NoTab]
    /\ fresh = [p \in Peers |-> [ready |-> FALSE, info |-> FALSE, prop |-> FALSE]]
    /\ cookies = [p \in Peers |->
                    IF p = 1 THEN [NoCookies EXCEPT ![1] = DefaultInfo] ELSE NoCookies]
    /\ fx = NoFx
    /\ game = NoGame
    /\ toggles = [p \in Peers |-> 0]
    /\ opens = [p \in Peers |-> 0]
    /\ session = [p \in Peers |-> NoSession]
    /\ gamesaves = [p \in Peers |-> <<>>]
    /\ start = [p \in Peers |-> NoStart]

\* the payload a sender puts into a packet of the given shape
PacketFrom(x, m) ==
    IF m.kind = "TabId" THEN TabMsg(x)
    ELSE IF m.kind = "GameSave" /\ m.save # NoSave THEN SaveMsg([ts |-> m.save.ts, by |-> x])
    ELSE m

\* a packet received on channel 1 is pushed onto the backlog
Arrive(p) ==
    /\ kind[p] = "full"
    /\ Len(messages[p]) < MaxBacklog
    /\ \E x \in Senders : \E m \in Packets(x) :
         messages' = [messages EXCEPT ![p] = Append(@, [from |-> x, msg |-> PacketFrom(x, m)])]
    /\ UNCHANGED <<kind, game, fx, cookies, gamesaves, gstate, sockId, usedIds, chanTaken, peers, evq, links, met, net,
                   world, waitingOn, storedSave, tabStore, fresh, toggles, opens, session,
                   start>>

\* the transport reports a sender as Connected
Joins(p) ==
    /\ kind[p] = "full"
    /\ \E x \in Senders :
         /\ peers[p][x] = "-"
         /\ \A i \in 1..Len(evq[p]) : evq[p][i].id # x
         /\ evq' = [evq EXCEPT ![p] = Append(@, [id |-> x, st |-> "C"])]
    /\ UNCHANGED <<kind, game, fx, cookies, gamesaves, gstate, sockId, usedIds, chanTaken, peers, links, met, net,
                   messages, world, waitingOn, storedSave, tabStore, fresh, toggles, opens,
                   session, start>>

\* one lobby frame with no click and nothing polled from the network
FrameRx(p) ==
    /\ kind[p] = "full"
    /\ in_state(p, "Matchmaking")
    /\ Frame(p, FALSE, TRUE, TRUE, TRUE, TRUE, NoPoll)

NextRx ==
    \/ \E p \in Peers : Arrive(p)
    \/ \E p \in Peers : Joins(p)
    \/ \E p \in Peers : FrameRx(p)

SpecRx == InitRx /\ [][NextRx]_vars

\* a step of p that is a frame: nothing arrived and no event was queued
RxStep(p) ==
    /\ kind[p] = "full"
    /\ Len(messages'[p]) <= Len(messages[p])
    /\ Len(evq'[p]) <= Len(evq[p])

\* index in backlog b of the last packet of variant v sent by x, 0 if none
RECURSIVE LastOf(_, _, _, _)
LastOf(b, x, v, n) ==
    IF n = 0 THEN 0
    ELSE IF b[n].from = x /\ b[n].msg.kind = v THEN n
    ELSE LastOf(b, x, v, n - 1)

\* record r after the packets of backlog b its peer sent: each field holds the
\* payload of the last packet of its variant, or what it held before
AfterMessages(r, b) ==
    LET t == LastOf(b, r.id, "TabId", Len(b))
        y == LastOf(b, r.id, "Ready", Len(b))
        g == LastOf(b, r.id, "GameSave", Len(b))
        u == LastOf(b, r.id, "UserInfo", Len(b))
    IN [r EXCEPT !.tab = IF t # 0 THEN b[t].msg.tab ELSE @,
                 !.ready = IF y # 0 THEN b[y].msg.ready ELSE @,
                 !.save = IF g # 0 THEN b[g].msg.save ELSE @,
                 !.info = IF u # 0 THEN b[u].msg.info ELSE @]

\* C13: a frame that applies the backlog changes, in the record of each
\* sender, exactly the fields its packets name, each to the payload of the
\* last packet of that variant; every other field and every other record,
\* the local one included, is as it was.
C13_MessageSetsNamedField ==
    [][\A p \in Peers :
         (RxStep(p) /\ gstate'[p] # "Crashed") =>
            /\ Len(world'[p]) >= Len(world[p])
            /\ \A j \in 1..Len(world[p]) :
                 world'[p][j] = AfterMessages(world[p][j], messages[p])]_vars

\* a record whose ready flag, snapshot and profile were written by packets
\* while another sender's record is still as it was created
C13_Witness ==
    \E p \in Peers, j \in 1..3, k \in 1..3 :
        /\ kind[p] = "full"
        /\ j <= Len(world[p]) /\ k <= Len(world[p])
        /\ ~world[p][j].local /\ world[p][j].ready
        /\ world[p][j].save # NoSave /\ world[p][j].info # NoInfo
        /\ world[p][j].tab = NoTab
        /\ ~world[p][k].local
        /\ world[p][k] = NewRecord(world[p][k].id, FALSE, NoTab, NoSave)

\* C14: a packet that does not decode is gone from the backlog after the
\* frame that processes the backlog; at most the frame that creates the
\* sender's record leaves one behind for the next frame.
C14_UndecodableDropped ==
    [][\A p \in Peers :
         RxStep(p) =>
            \A n \in 1..Len(messages'[p]) :
                messages'[p][n].msg.kind = "Undecodable" =>
                    FindEntity(world'[p], messages'[p][n].from) # 0]_vars

\* the same for packets of senders that have a record when the frame begins
C14_UndecodableFromKnownDropped ==
    [][\A p \in Peers :
         RxStep(p) =>
            \A n \in 1..Len(messages[p]) :
                (messages[p][n].msg.kind = "Undecodable"
                    /\ FindEntity(world[p], messages[p][n].from) # 0) =>
                  /\ \A k \in 1..Len(messages'[p]) : messages'[p][k] # messages[p][n]
                  /\ net' = net]_vars

\* C15: a packet whose sender has no record gets a record created for that
\* sender and is applied to it by the frame that processes it: after a frame
\* no packet is left waiting in the backlog for a sender without a record.
C15_UnknownSenderRecordCreated ==
    \A p \in Peers :
        (kind[p] = "full" /\ gstate[p] # "Crashed") =>
            \A n \in 1..Len(messages[p]) :
                FindEntity(world[p], messages[p][n].from) # 0

\* the same while the peer is in a session
C15_InSession ==
    \A p \in Peers :
        (kind[p] = "full" /\ gstate[p] = "InGame") =>
            \A n \in 1..Len(messages[p]) :
                FindEntity(world[p], messages[p][n].from) # 0

\* ---------------------------------------------------------------- progress
\* Two peers running the whole program and nobody else.  Bevy runs the
\* Update schedule of every peer frame after frame, and the signalling server
\* answers every socket, so frames and identifier assignment are weakly fair;
\* nothing forces the user to click and nothing forces a connection.
InitPair ==
    InitWith([p \in Peers |-> IF p <= 2 THEN "full" ELSE "closed"])

NextPair ==
    \/ \E p \in Peers : AssignId(p)
    \/ \E p \in Peers, q \in Peers : Connect(p, q)
    \/ \E p \in Peers : TickInOrder(p)
    \/ \E p \in Peers : TickInGame(p)

\* what a frame of p may change, as it stands now
FrameState(p) ==
    [gstate |-> gstate[p], chanTaken |-> chanTaken[p], peers |-> peers[p], evq |-> evq[p],
     net |-> net, messages |-> messages[p], world |-> world[p], waitingOn |-> waitingOn[p],
     tabStore |-> tabStore[p], fresh |-> fresh[p], cookies |-> cookies[p],
     toggles |-> toggles[p], session |-> session[p], start |-> start[p]]

\* a frame of p would change something: ENABLED <<TickInOrder(p)>>_vars
FrameChanges(p) ==
    /\ kind[p] = "full"
    /\ in_state(p, "Matchmaking")
    /\ \E click \in BOOLEAN :
         /\ click => toggles[p] > 0 /\ ui(world[p], TRUE) # world[p]
         /\ \E o \in {FrameOutcome(p, click, TRUE, TRUE, TRUE, TRUE, PollAll(p))} :
               [f \in DOMAIN FrameState(p) |-> o[f]] # FrameState(p)

\* weak fairness of the frames of p, WF_vars(TickInOrder(p)), with the
\* enabling condition written out
FramesOf(p) == ([]<>~FrameChanges(p)) \/ ([]<><<TickInOrder(p)>>_vars)

\* a frame of p in a session would poll something: ENABLED <<TickInGame(p)>>_vars
InGameChanges(p) ==
    /\ kind[p] = "full"
    /\ gstate[p] = "InGame"
    /\ \E q \in Peers \ {p} : net[q][p] # <<>>

\* WF_vars(TickInGame(p)), with the enabling condition written out
InGameFramesOf(p) == ([]<>~InGameChanges(p)) \/ ([]<><<TickInGame(p)>>_vars)

FramesRun ==
    /\ \A p \in Peers : WF_vars(AssignId(p))
    /\ \A p \in Peers : FramesOf(p)
    /\ \A p \in Peers : InGameFramesOf(p)

SpecPair == InitPair /\ [][NextPair]_vars /\ FramesRun

FullPeers == {p \in Peers : kind[p] = "full"}

\* the full peers are pairwise connected
MutuallyConnected ==
    \A p \in FullPeers, q \in FullPeers : p # q => {p, q} \in links

\* every full peer has its local record and has set it ready
AllReady ==
    \A p \in FullPeers :
        \E i \in LocalIdx(world[p]) : world[p][i].ready

\* C16: once the peers are mutually connected and every one of them is ready,
\* every one of them eventually fires the start trigger.
C16_AllReadyEventuallyStart ==
    (MutuallyConnected /\ AllReady) ~> (\A p \in FullPeers : Started(p))

\* the same when the peers are connected and ready while all of them are
\* still in the lobby
C16_StartFromCommonLobby ==
    (MutuallyConnected /\ AllReady /\ (\A p \in FullPeers : gstate[p] = "Matchmaking"))
        ~> (\A p \in FullPeers : Started(p))

\* ---------------------------------------------------------------- solo start
\* p is alone in the lobby: it has its identifier, its local record is the
\* only record and is ready, and the socket reports nobody connected
SoloReady(p) ==
    /\ kind[p] = "full"
    /\ gstate[p] = "Matchmaking"
    /\ sockId[p] # NoId
    /\ Len(world[p]) = 1
    /\ world[p][1].local /\ world[p][1].ready
    /\ ConnectedPeers(peers[p]) = {}

\* C17: a peer alone in the lobby and ready starts: WaitingOn is there; if it
\* is empty the next frame (no click) fires the trigger and builds a session
\* of one player, the local one, with handle 0; if it still names a peer that
\* has left, the next frame empties it.
C17_SoloPeerStarts ==
    \A p \in Peers :
        SoloReady(p) =>
            /\ waitingOn[p].present
            /\ \A uFirstC \in BOOLEAN, uFirstT \in BOOLEAN, k \in PollChoices(p) :
                 LET o == FrameOutcome(p, FALSE, TRUE, TRUE, uFirstC, uFirstT, k)
                 IN IF waitingOn[p].ids = {}
                    THEN /\ o.gstate = "InGame"
                         /\ o.session = [active |-> TRUE, num_players |-> 1,
                                         players |-> <<[id |-> sockId[p], type |-> "Local",
                                                        handle |-> 0]>>]
                    ELSE evq[p] = <<>> => o.waitingOn.ids = {}

\* a peer in a session it started alone
C17_Witness ==
    \E p \in Peers :
        /\ gstate[p] = "InGame"
        /\ Started(p)
        /\ start[p].conn = {}
        /\ Len(start[p].recs) = 1
        /\ session[p].num_players = 1
        /\ session[p].players[1].handle = 0

\* ---------------------------------------------------------------- disconnect in a session
\* a remote player of p's session has lost its connection to p
PlayerGone(p) ==
    \E i \in 1..Len(session[p].players) :
        /\ session[p].players[i].id # sockId[p]
        /\ \A q \in Peers : sockId[q] = session[p].players[i].id => {p, q} \notin links

LocalReady(W) == \E i \in LocalIdx(W) : W[i].ready

\* C18: a peer in a session leaves it only when a remote player is gone, and
\* then it is in Matchmaking, its local ready flag is not set and the stored
\* save holds a snapshot with a timestamp; while it stays in the session its
\* stored save and its local ready flag are as they were.
C18_DisconnectEndsSession ==
    [][\A p \in Peers :
         (kind[p] = "full" /\ gstate[p] = "InGame") =>
            IF gstate'[p] # "InGame"
            THEN /\ PlayerGone(p)
                 /\ gstate'[p] = "Matchmaking"
                 /\ ~LocalReady(world'[p])
                 /\ storedSave'[p] # NoSave
                 /\ storedSave'[p].ts \in Timestamps
            ELSE /\ storedSave'[p] = storedSave[p]
                 /\ LocalReady(world'[p]) = LocalReady(world[p])]_vars

\* a peer back in the lobby with the snapshot of the session it left
C18_Witness ==
    \E p \in Peers :
        /\ kind[p] = "full"
        /\ gstate[p] = "Matchmaking"
        /\ start[p].sessions > 0
        /\ ~Started(p)
        /\ storedSave[p] # NoSave
        /\ ~LocalReady(world[p])

\* ---------------------------------------------------------------- tab identity
\* C19: a stored tab identity is never overwritten, and after every step each
\* local record carries the tab identity that is stored.
C19_TabIdentityStable ==
    [][\A p \in Peers :
         /\ tabStore[p] # NoTab => tabStore'[p] = tabStore[p]
         /\ \A i \in LocalIdx(world'[p]) : world'[p][i].tab = tabStore'[p]]_vars

\* a peer on a later socket: its local record has the new transport
\* identifier and the tab identity stored on the first lobby entry
C19_Witness ==
    \E p \in Peers :
        /\ kind[p] = "full"
        /\ sockId[p] # NoId
        /\ \E i \in LocalIdx(world[p]) :
              /\ world[p][i].id = sockId[p]
              /\ world[p][i].tab # sockId[p]
              /\ world[p][i].tab = tabStore[p]

\* ------------------------------------------------- profile persistence
\* One browser tab alone at the lobby, typing in the name field and clicking
\* ready.  The cookie starts with any entries earlier visits of this and of other
\* tabs have left, and sessionStorage with or without a tab identity.
InitProfile ==
    /\ kind = [p \in Peers |-> IF p = 1 THEN "full" ELSE "closed"]
    /\ gstate = [p \in Peers |-> "Matchmaking"]
    /\ sockId = [p \in Peers |-> NoId]
    /\ usedIds = {}
    /\ chanTaken = [p \in Peers |-> FALSE]
    /\ peers = [p \in Peers |-> NoPeers]
    /\ evq = [p \in Peers |-> <<>>]
    /\ links = {}
    /\ met = {}
    /\ net = [p \in Peers |-> [q \in Peers |-> <<>>]]
    /\ messages = [p \in Peers |-> <<>>]
    /\ world = [p \in Peers |-> <<>>]
    /\ waitingOn = [p \in Peers |-> [present |-> FALSE, ids |-> {}]]
    /\ storedSave = [p \in Peers |-> NoSave]
    /\ \E t \in {NoTab, 2} : tabStore = [p \in Peers |-> IF p = 1 THEN t ELSE NoTab]
    /\ fresh = [p \in Peers |-> [ready |-> FALSE, info |-> FALSE, prop |-> FALSE]]
    /\ \E map \in [Ids -> Names \cup {NoInfo}] :
          cookies = [p \in Peers |-> IF p = 1 THEN map ELSE NoCookies]
    /\ fx = NoFx
    /\ game = NoGame
    /\ toggles = [p \in Peers |-> MaxToggles]
    /\ opens = [p \in Peers |-> 0]
    /\ session = [p \in Peers |-> NoSession]
    /\ gamesaves = [p \in Peers |-> <<>>]
    /\ start = [p \in Peers |-> NoStart]

\* what the user and the scheduler may do to the name field in one frame
Typings(p) ==
    {t \in [name : Names \cup {NoInfo}, propFirst : BOOLEAN,
            pick : FirstValues(cookies[p])] :
        /\ t.name # NoInfo => ui_typed(world[p], FALSE, t.name) # world[p]
        /\ t.name = NoInfo => t.propFirst}

\* one lobby frame of a tab with a keyboard
TickTyped(p) ==
    /\ kind[p] = "full"
    /\ in_state(p, "Matchmaking")
    /\ \E click \in BOOLEAN, uiFirstT \in BOOLEAN, typing \in Typings(p) :
         /\ click => toggles[p] > 0 /\ ui(world[p], TRUE) # world[p]
         /\ ~click => uiFirstT
         /\ \E o \in {TypedOutcome(p, click, typing, TRUE, uiFirstT, TRUE, TRUE, NoPoll)} :
               Commit(p, o)

NextProfile ==
    \/ \E p \in Peers : AssignId(p)
    \/ \E p \in Peers : TickTyped(p)

SpecProfile == InitProfile /\ [][NextProfile]_vars

\* the local records that carry a profile and a tab identity
Profiled(W) == {i \in LocalIdx(W) : W[i].info # NoInfo /\ W[i].tab # NoTab}

\* C20 (first half): profile persistence is keyed by tab identity: once
\* update_local_property has run after the last change of the local name, and in
\* any case once the lobby has ended, the cookie's entry for the local tab
\* identity equals the current local value.
C20_ProfilePersistedByTab ==
    \A p \in Peers :
       kind[p] = "full" /\ (gstate[p] = "InGame" \/ ~fresh[p].prop) =>
          \A i \in Profiled(world[p]) : cookies[p][world[p][i].tab] = world[p][i].info

\* C20 (the rest): a frame writes no entry but the local tab's, and a record
\* initialised while the cookie holds an entry for its tab receives exactly that
\* value without the cookie being written.
C20_OtherTabsKeptInitFromCookie ==
    [][\A p \in Peers :
          /\ \A i \in LocalIdx(world[p]) : \A t \in Ids \ {world[p][i].tab} :
                cookies'[p][t] = cookies[p][t]
          /\ \A i \in LocalIdx(world[p]) :
                /\ world[p][i].info = NoInfo /\ world[p][i].tab # NoTab
                /\ cookies[p][world[p][i].tab] # NoInfo
                /\ Len(world'[p]) >= i
                => /\ world'[p][i].info = cookies[p][world[p][i].tab]
                   /\ cookies'[p] = cookies[p]
          /\ LocalIdx(world[p]) = {} => cookies'[p] = cookies[p]]_vars

\* ------------------------------------------------- fixed-point checks
\* No peer runs; a vector, a right-hand operand and the build (with or without
\* overflow checks) are drawn, and one operation is applied to them.
InitFixed ==
    /\ kind = [p \in Peers |-> "closed"]
    /\ gstate = [p \in Peers |-> "Matchmaking"]
    /\ sockId = [p \in Peers |-> NoId]
    /\ usedIds = {}
    /\ chanTaken = [p \in Peers |-> FALSE]
    /\ peers = [p \in Peers |-> NoPeers]
    /\ evq = [p \in Peers |-> <<>>]
    /\ links = {}
    /\ met = {}
    /\ net = [p \in Peers |-> [q \in Peers |-> <<>>]]
    /\ messages = [p \in Peers |-> <<>>]
    /\ world = [p \in Peers |-> <<>>]
    /\ waitingOn = [p \in Peers |-> [present |-> FALSE, ids |-> {}]]
    /\ storedSave = [p \in Peers |-> NoSave]
    /\ tabStore = [p \in Peers |-> NoTab]
    /\ fresh = [p \in Peers |-> [ready |-> FALSE, info |-> FALSE, prop |-> FALSE]]
    /\ cookies = [p \in Peers |-> NoCookies]
    /\ toggles = [p \in Peers |-> 0]
    /\ opens = [p \in Peers |-> 0]
    /\ session = [p \in Peers |-> NoSession]
    /\ gamesaves = [p \in Peers |-> <<>>]
    /\ start = [p \in Peers |-> NoStart]
    /\ \E c \in BOOLEAN, v \in Vecs, r \in Samples :
          fx = [NoFx EXCEPT !.checked = c, !.v = v, !.rhs = r]
    /\ game = NoGame

lobbyVars == <<kind, gstate, sockId, usedIds, chanTaken, peers, evq, links, met, net,
               messages, world, waitingOn, storedSave, tabStore, fresh, toggles, opens,
               session, gamesaves, start, cookies>>

\* one call of an operation on the operands drawn
Apply(op, file, res) ==
    /\ fx.op = "none"
    /\ fx' = [fx EXCEPT !.op = op, !.file = file, !.res = res]
    /\ UNCHANGED <<lobbyVars, game>>

Mul == Apply("mul", "fixed_point.rs", mul(fx.v, fx.rhs, fx.checked))
Add == Apply("add", "fixed_point.rs", add(fx.v, Vec(fx.rhs, fx.rhs), fx.checked))
Sub == Apply("sub", "fixed_point.rs", sub(fx.v, Vec(fx.rhs, fx.rhs), fx.checked))
Neg == Apply("neg", "fixed_point.rs", neg(fx.v, fx.checked))
NormSq == Apply("norm_sq", "fixed_point.rs", norm_sq(fx.v, fx.checked))
NormSqComponents == Apply("norm_sq", "components.rs", norm_sq_components(fx.v, fx.checked))
Norm == Apply("norm", "fixed_point.rs", norm(fx.v, fx.checked))
NormComponents == Apply("norm", "components.rs", norm_components(fx.v, fx.checked))
Normalize == Apply("normalize_or_zero", "fixed_point.rs", normalize_or_zero(fx.v, fx.checked))
NormalizeComponents ==
    Apply("normalize_or_zero", "components.rs", normalize_or_zero_components(fx.v, fx.checked))

NextFixed ==
    \/ Mul
    \/ Add
    \/ Sub
    \/ Neg
    \/ NormSq
    \/ NormSqComponents
    \/ Norm
    \/ NormComponents
    \/ Normalize
    \/ NormalizeComponents

SpecFixed == InitFixed /\ [][NextFixed]_vars

\* the squared length of the operand as the file's norm_sq computes it
LenSqOf(file) ==
    IF file = "components.rs" THEN norm_sq_components(fx.v, fx.checked)
    ELSE norm_sq(fx.v, fx.checked)

\* C21: normalize_or_zero returns the zero vector whenever the squared length
\* of its operand, as norm_sq computes it, is zero.
C21_ZeroLengthGivesZero ==
    fx.op = "normalize_or_zero" /\ ~fx.res.failed /\ LenSqOf(fx.file).out.x = 0
       => fx.res.out = Zero

\* C22: for every nonzero vector v the squared length of normalize_or_zero(v)
\* differs from 1.0 by at most Epsilon steps of 2^-12, whatever v is.
C22_NormalizedHasUnitLength ==
    /\ fx.op = "normalize_or_zero" /\ fx.file = "fixed_point.rs"
    /\ fx.v # Zero /\ ~fx.res.failed
    => LET sq == norm_sq(fx.res.out, FALSE).out.x
       IN sq >= One - Epsilon /\ sq <= One + Epsilon

\* C23: the squared length is never negative: norm_sq returns a value >= 0 for
\* every vector, in fixed_point.rs and in components.rs, so that norm and
\* normalize_or_zero never take the square root of a negative number.
C23_SquaredLengthNotNegative ==
    /\ fx.op = "norm_sq" /\ ~fx.res.failed => fx.res.out.x >= 0
    /\ fx.op \in {"norm", "normalize_or_zero"} /\ ~LenSqOf(fx.file).failed
          => LenSqOf(fx.file).out.x >= 0

\* C23 for the fixed_point.rs copy alone, which clamps
C23_ClampedNotNegative ==
    fx.file = "fixed_point.rs" => C23_SquaredLengthNotNegative

\* the component results of the operation applied, each with its overflow flag
\* and the value the operation returned for it
PartsOf(op) ==
    LET w == Vec(fx.rhs, fx.rhs)
    IN IF op = "mul" THEN {<<overflowing_mul(fx.v.x, fx.rhs).overflow, fx.res.out.x>>,
                           <<overflowing_mul(fx.v.y, fx.rhs).overflow, fx.res.out.y>>}
       ELSE IF op = "add" THEN {<<overflowing_add(fx.v.x, w.x).overflow, fx.res.out.x>>,
                                <<overflowing_add(fx.v.y, w.y).overflow, fx.res.out.y>>}
       ELSE IF op = "sub" THEN {<<overflowing_sub(fx.v.x, w.x).overflow, fx.res.out.x>>,
                                <<overflowing_sub(fx.v.y, w.y).overflow, fx.res.out.y>>}
       ELSE IF op = "neg" THEN {<<overflowing_neg(fx.v.x).overflow, fx.res.out.x>>,
                                <<overflowing_neg(fx.v.y).overflow, fx.res.out.y>>}
       ELSE {<<fx.res.overflow, fx.res.out.x>>}

\* C24: add, subtract, negate, scalar multiply and squared length never wrap
\* silently: when the exact result of a component lies outside the I20F12
\* range, the operation fails or returns a representable extreme there.
C24_NoSilentWrap ==
    fx.op \in {"mul", "add", "sub", "neg", "norm_sq"} /\ fx.file = "fixed_point.rs"
       => \/ fx.res.failed
          \/ \A part \in PartsOf(fx.op) : part[1] => part[2] \in {MinBits, MaxBits}

\* C24 for builds with overflow checks alone: every overflow is a panic
C24_CheckedBuildFails ==
    fx.checked => C24_NoSilentWrap

\* C25: session construction never fails once the start condition holds: every
\* firing of the start trigger builds a session (no unwrap, expect or command
\* of the construction panics), every identifier in the player ordering has a
\* record, the number of players declared equals the number of handles
\* assigned, and exactly one participant is Local.
C25_SessionConstructionSucceeds ==
    \A p \in Peers :
       /\ start[p].sessions = start[p].n
       /\ session[p].active =>
             /\ session[p].num_players = Len(session[p].players)
             /\ Cardinality({i \in 1..Len(session[p].players) :
                               session[p].players[i].type = "Local"}) = 1
             /\ \A i \in 1..Len(session[p].players) :
                   RecordOf(start[p].recs, session[p].players[i].id) # {}

\* ---------------------------------------------------------------- dissemination
\* q is reachable from p: the connection is up and p's socket shows q connected
Reachable(p, q) ==
    /\ p # q /\ sockId[p] # NoId /\ sockId[q] # NoId
    /\ {p, q} \in links
    /\ peers[p][sockId[q]] = "C"

\* nothing is under way: no packet in flight or in a backlog, no transport
\* event unpolled, no local change not yet broadcast
Settled ==
    /\ \A s \in Peers, r \in Peers : net[s][r] = <<>>
    /\ \A p \in Peers : messages[p] = <<>> /\ evq[p] = <<>>
    /\ \A p \in Peers : ~fresh[p].ready /\ ~fresh[p].info

\* p's record of q shows what q's local record holds
Agrees(p, q) ==
    \A j \in LocalIdx(world[q]) :
       \E i \in RecordOf(world[p], sockId[q]) :
          /\ world[p][i].tab = world[q][j].tab
          /\ world[p][i].ready = world[q][j].ready
          /\ world[p][i].info = world[q][j].info
          /\ world[p][i].save = world[q][j].save

\* C26: dissemination converges: when the peer set is stable, no local value
\* changes any more and every message sent has been delivered and applied, each
\* peer's record of every reachable peer holds that peer's current tab
\* identity, ready flag, profile and snapshot.
C26_DisseminationConverges ==
    Settled => \A p \in Peers, q \in Peers :
                  /\ kind[p] = "full" /\ Reachable(p, q)
                  /\ gstate[p] # "Crashed" /\ gstate[q] # "Crashed"
                  => Agrees(p, q)

\* C26 with the snapshot left out: tab identity, ready flag and profile of
\* every reachable peer are current once everything is settled
C26_IdentityReadyProfileConverge ==
    Settled => \A p \in Peers, q \in Peers :
                  /\ kind[p] = "full" /\ Reachable(p, q)
                  /\ gstate[p] # "Crashed" /\ gstate[q] # "Crashed"
                  => \A j \in LocalIdx(world[q]) :
                        \E i \in RecordOf(world[p], sockId[q]) :
                           /\ world[p][i].tab = world[q][j].tab
                           /\ world[p][i].ready = world[q][j].ready
                           /\ world[p][i].info = world[q][j].info

\* two peers in the lobby, settled, each showing the other connected
C26_SettledPair ==
    /\ Settled
    /\ \E p \in Peers, q \in Peers :
          /\ kind[p] = "full" /\ Reachable(p, q) /\ Reachable(q, p)
          /\ gstate[p] = "Matchmaking" /\ gstate[q] = "Matchmaking"
          /\ \E j \in LocalIdx(world[q]) : world[q][j].ready

\* ---------------------------------------------------------------- local record first
IsPrefix(s, t) == Len(s) <= Len(t) /\ SubSeq(t, 1, Len(s)) = s

\* p has no assigned identifier or no complete local record yet
NotYetReady(p) ==
    sockId[p] = NoId \/ Cardinality(CompleteLocalIdx(world[p])) # 1

RemoteIds(W) == {W[i].id : i \in {j \in 1..Len(W) : ~W[j].local}}

C28_OnlyDisconnectLeavesInGame ==
    [][\A p \in Peers :
         /\ (gstate[p] = "InGame" /\ gstate'[p] # "InGame") =>
               /\ kind[p] = "full"
               /\ session[p].active
               /\ PlayerGone(p)
               /\ gstate'[p] = "Matchmaking"
               /\ ~session'[p].active
         /\ (gstate[p] # "Matchmaking" /\ gstate'[p] = "Matchmaking") =>
               /\ gstate[p] = "InGame"
               /\ PlayerGone(p)
         /\ (gstate[p] = "InGame" /\ ~PlayerGone(p)) => gstate'[p] = "InGame"]_vars

\* a peer whose session ended is in the lobby again, without a socket id yet
C28_Witness ==
    \E p \in Peers :
        /\ kind[p] = "full"
        /\ start[p].n >= 1
        /\ gstate[p] = "Matchmaking"
        /\ ~session[p].active
        /\ sockId[p] = NoId

\* ---------------------------------------------------------------- change detection
\* the values the local record holds
ReadyValues(W) == {W[i].ready : i \in LocalIdx(W)}
InfoValues(W) == {W[i].info : i \in LocalIdx(W)}

\* the kinds of the messages broadcast_my_info_changes sends in a frame of p
\* in which the checkbox is or is not clicked and `name` is typed into the
\* name field (NoInfo: nothing is typed)
SentKinds(p, click, name, uiFirstU) ==
    LET typing == [name |-> name, propFirst |-> TRUE, pick |-> NoTyping(p).pick]
        o == TypedOutcome(p, click, typing, uiFirstU, TRUE, TRUE, TRUE, NoPoll)
    IN {o.sent[i].msg.kind : i \in 1..Len(o.sent)}

\* C29: in a lobby frame whose UI pass leaves the local ready flag at its
\* value, no Ready message is broadcast, and in one whose UI pass leaves the
\* profile at its value (nothing typed, or the same name typed again), no
\* UserInfo message is broadcast; the frame that first sees a component
\* inserted at the end of the frame before counts as a change of it.
C29_NoChangeNoBroadcast ==
    \A p \in Peers :
       (kind[p] = "full" /\ gstate[p] = "Matchmaking") =>
          \A click \in BOOLEAN, name \in Names \cup {NoInfo}, uiFirstU \in BOOLEAN :
             LET W == world[p]
                 Wui == ui_typed(W, click, name)
                 kinds == SentKinds(p, click, name, uiFirstU)
             IN /\ (ReadyValues(Wui) = ReadyValues(W) /\ ~fresh[p].ready) =>
                      "Ready" \notin kinds
                /\ (InfoValues(Wui) = InfoValues(W) /\ ~fresh[p].info) =>
                      "UserInfo" \notin kinds
                /\ (Wui = W /\ ~fresh[p].ready /\ ~fresh[p].info) => kinds = {}

\* a peer with a connected peer and a settled local record: a frame in which
\* its own name is typed again stays silent, a click is broadcast
C29_Witness ==
    \E p \in Peers :
        /\ kind[p] = "full"
        /\ gstate[p] = "Matchmaking"
        /\ ConnectedPeers(peers[p]) # {}
        /\ ~fresh[p].ready
        /\ ~fresh[p].info
        /\ \E name \in InfoValues(world[p]) \cap Names :
              /\ ui_typed(world[p], FALSE, name) = world[p]
              /\ SentKinds(p, FALSE, name, TRUE) = {}
        /\ SentKinds(p, TRUE, NoInfo, TRUE) = {"Ready"}

\* C29 as stated: whenever the UI pass of a lobby frame leaves the local ready
\* flag and the local profile at their values, the frame broadcasts nothing.
C29_SilentWithoutValueChange ==
    \A p \in Peers :
       (kind[p] = "full" /\ gstate[p] = "Matchmaking") =>
          \A click \in BOOLEAN, name \in Names \cup {NoInfo}, uiFirstU \in BOOLEAN :
             ui_typed(world[p], click, name) = world[p] =>
                SentKinds(p, click, name, uiFirstU) = {}

\* ---------------------------------------------------------------- backlog
\* the packets of the backlog of p whose sender has no record at p
Stranded(p) ==
    LET NoRecord(m) == FindEntity(world[p], m.from) = 0
    IN SelectSeq(messages[p], NoRecord)

C30_StrandedKept ==
    [][\A p \in Peers : RxStep(p) => Stranded(p) = messages'[p]]_vars

\* a backlog filled by senders without a record that a frame has gone over
C30_StrandedBacklog ==
    \E p \in Peers :
        /\ kind[p] = "full"
        /\ Len(Stranded(p)) = MaxBacklog
        /\ \A x \in Senders : peers[p][x] = "-" /\ evq[p] = <<>>

\* ---------------------------------------------------------------- identity before readiness
\* C31: at every peer, a record of a remote peer that is ready carries a tab
\* identity.
C31_ReadyRecordHasTab ==
    \A p \in Peers :
        kind[p] = "full" =>
            \A i \in 1..Len(world[p]) :
                (~world[p][i].local /\ world[p][i].ready) => world[p][i].tab # NoTab

\* a peer holds a ready record of a remote peer
C31_Witness ==
    \E p \in Peers :
        /\ kind[p] = "full"
        /\ \E i \in 1..Len(world[p]) :
              /\ ~world[p][i].local
              /\ world[p][i].ready
              /\ world[p][i].tab # NoTab

\* what x has sent to p and p has not processed: the backlog, then the channel
StreamFrom(p, x) ==
    LET FromX(m) == m.from = x
    IN SelectSeq(messages[p], FromX)
       \o Concat([q \in 1..NPeers |-> IF q = p THEN <<>> ELSE SelectSeq(net[q][p], FromX)], 1)

\* on the way to p, a Ready message of a connected sender comes after that
\* sender's TabId message, unless p's record of the sender has its tab already
C31_TabIdPrecedesReady ==
    \A p \in Peers, q \in Peers :
        (kind[p] = "full" /\ q # p /\ sockId[q] # NoId /\ {p, q} \in links) =>
            LET s == StreamFrom(p, sockId[q])
                e == FindEntity(world[p], sockId[q])
            IN \A n \in 1..Len(s) :
                  s[n].msg.kind = "Ready" =>
                     \/ e # 0 /\ world[p][e].tab # NoTab
                     \/ \E k \in 1..(n - 1) : s[k].msg.kind = "TabId"

\* a spawned record is not ready
C31_SpawnedNotReady ==
    [][\A p \in Peers :
         kind[p] = "full" =>
            \A i \in 1..Len(world'[p]) :
                FindEntity(world[p], world'[p][i].id) = 0 => ~world'[p][i].ready]_vars

\* ---------------------------------------------------------------- input
INPUT_UP == 1
INPUT_DOWN == 2
INPUT_LEFT == 4
INPUT_RIGHT == 8
INPUT_FIRE == 16
DIRECTION_SCALE == 100

\* the packed input byte
Bytes == 0..255

\* input & mask != 0, for a mask of one bit
BitSet(input, mask) == (input \div mask) % 2 = 1

\* the results of scaling a diagonal of length DIRECTION_SCALE * sqrt(2) back to
\* length DIRECTION_SCALE in integers: rounded down or to the nearest
Diagonals == {70, 71}

\* IVec2Ext::normalize_or_zero_at_scale on a vector with components in
\* {-scale, 0, scale}; diag is the component a diagonal is scaled to
normalize_or_zero_at_scale(v, scale, diag) ==
    IF v.x = 0 \/ v.y = 0 THEN v
    ELSE Vec(IF v.x > 0 THEN diag ELSE -diag, IF v.y > 0 THEN diag ELSE -diag)

\* a direction that takes the fire bit for a second up key
direction_with_fire(input, diag) ==
    LET up == IF BitSet(input, INPUT_UP) \/ BitSet(input, INPUT_FIRE)
              THEN DIRECTION_SCALE ELSE 0
        down == IF BitSet(input, INPUT_DOWN) THEN DIRECTION_SCALE ELSE 0
        right == IF BitSet(input, INPUT_RIGHT) THEN DIRECTION_SCALE ELSE 0
        left == IF BitSet(input, INPUT_LEFT) THEN DIRECTION_SCALE ELSE 0
    IN normalize_or_zero_at_scale(Vec(right - left, up - down), DIRECTION_SCALE, diag)

direction(input, diag) ==
    LET up == IF BitSet(input, INPUT_UP) THEN DIRECTION_SCALE ELSE 0
        down == IF BitSet(input, INPUT_DOWN) THEN DIRECTION_SCALE ELSE 0
        right == IF BitSet(input, INPUT_RIGHT) THEN DIRECTION_SCALE ELSE 0
        left == IF BitSet(input, INPUT_LEFT) THEN DIRECTION_SCALE ELSE 0
    IN normalize_or_zero_at_scale(Vec(right - left, up - down), DIRECTION_SCALE, diag)

fire(input) == BitSet(input, INPUT_FIRE)

\* No peer runs; an input byte is drawn and decoded.
InitInput ==
    /\ kind = [p \in Peers |-> "closed"]
    /\ gstate = [p \in Peers |-> "Matchmaking"]
    /\ sockId = [p \in Peers |-> NoId]
    /\ usedIds = {}
    /\ chanTaken = [p \in Peers |-> FALSE]
    /\ peers = [p \in Peers |-> NoPeers]
    /\ evq = [p \in Peers |-> <<>>]
    /\ links = {}
    /\ met = {}
    /\ net = [p \in Peers |-> [q \in Peers |-> <<>>]]
    /\ messages = [p \in Peers |-> <<>>]
    /\ world = [p \in Peers |-> <<>>]
    /\ waitingOn = [p \in Peers |-> [present |-> FALSE, ids |-> {}]]
    /\ storedSave = [p \in Peers |-> NoSave]
    /\ tabStore = [p \in Peers |-> NoTab]
    /\ fresh = [p \in Peers |-> [ready |-> FALSE, info |-> FALSE, prop |-> FALSE]]
    /\ cookies = [p \in Peers |-> NoCookies]
    /\ toggles = [p \in Peers |-> 0]
    /\ opens = [p \in Peers |-> 0]
    /\ session = [p \in Peers |-> NoSession]
    /\ gamesaves = [p \in Peers |-> <<>>]
    /\ start = [p \in Peers |-> NoStart]
    /\ fx = NoFx
    /\ \E b \in Bytes, d \in Diagonals : game = [NoGame EXCEPT !.input = b, !.diag = d]

\* one call of direction on the byte drawn
Direction ==
    /\ game.op = "none"
    /\ game' = [game EXCEPT !.op = "direction", !.dir = direction(game.input, game.diag)]
    /\ UNCHANGED <<lobbyVars, fx>>

\* one call of fire on the byte drawn
Fire ==
    /\ game.op = "none"
    /\ game' = [game EXCEPT !.op = "fire", !.fire = fire(game.input)]
    /\ UNCHANGED <<lobbyVars, fx>>

NextInput ==
    \/ Direction
    \/ Fire

SpecInput == InitInput /\ [][NextInput]_vars

\* the axis value the four direction keys give, before scaling
Axis(plus, minus) == (IF plus THEN 1 ELSE 0) - (IF minus THEN 1 ELSE 0)

Sign(n) == IF n > 0 THEN 1 ELSE IF n < 0 THEN -1 ELSE 0

\* C34: the direction decoded from a byte is the one decoded from its bits
\* 0-3 alone; on each axis its sign is that of the key pressed, none when both
\* keys or neither are pressed; without a direction key, or with cancelling
\* pairs only, it is zero; fire is bit 4 and nothing else.
C34_InputDecoding ==
    LET b == game.input
        up == (b \div 1) % 2 = 1
        down == (b \div 2) % 2 = 1
        left == (b \div 4) % 2 = 1
        right == (b \div 8) % 2 = 1
    IN /\ game.op = "direction" =>
            /\ game.dir = direction(b % 16, game.diag)
            /\ \A hi \in 0..15 : direction((b % 16) + 16 * hi, game.diag) = game.dir
            /\ Sign(game.dir.x) = Axis(right, left)
            /\ Sign(game.dir.y) = Axis(up, down)
            /\ (right = left /\ up = down) => game.dir = Zero
       /\ game.op = "fire" =>
            /\ game.fire = ((b \div 16) % 2 = 1)
            /\ \A lo \in 0..15, hi \in 0..7 :
                  fire(lo + 16 * (IF game.fire THEN 1 ELSE 0) + 32 * hi) = game.fire

\* a byte with up and down pressed together, right alone and bits above bit 3
\* set has been decoded to a direction along x only
C34_Witness ==
    /\ game.op = "direction"
    /\ game.input % 16 = 11
    /\ game.input >= 32
    /\ game.dir = Vec(DIRECTION_SCALE, 0)

\* ---------------------------------------------------------------- the rollback tick
MAP_SIZE == 41

\* SpatiatialFixedInner::from_num(0.13): 0.13 * 2^12 = 532.48, to the nearest
move_speed == 532

\* SpatiatialFixedInner::from(MAP_SIZE) / 2.into() - 0.5.into()
WIDTH == (MAP_SIZE * One) \div 2 - One \div 2

\* the direction as the fixed-point vector move_players computes with: each
\* component of the scaled integer direction divided by DIRECTION_SCALE
direction_fixed(input, diag) ==
    LET d == direction(input, diag)
        Fix(c) == IF c >= 0 THEN (c * One) \div DIRECTION_SCALE
                  ELSE -(((-c) * One) \div DIRECTION_SCALE)
    IN Vec(Fix(d.x), Fix(d.y))

\* a clamp that lets every value through
clamp_open(v, min, max) == v

\* Vec2Fixed::clamp
clamp(v, min, max) ==
    LET Clamp(c, lo, hi) == IF c < lo THEN lo ELSE IF c > hi THEN hi ELSE c
    IN Vec(Clamp(v.x, min.x, max.x), Clamp(v.y, min.y, max.y))

\* move_players for one player: [pos, move_dir, failed]
move_players(g, input) ==
    LET d == direction_fixed(input, g.diag)
        move_delta == mul(d, move_speed, g.checked)
        limit == Vec(WIDTH, WIDTH)
        low == neg(limit, g.checked)
        sum == add(g.pos, move_delta.out, g.checked)
    IN IF d = Zero
       THEN [pos |-> g.pos, move_dir |-> g.move_dir, failed |-> FALSE]
       ELSE [pos |-> clamp(sum.out, low.out, limit),
             move_dir |-> d,
             failed |-> move_delta.failed \/ low.failed \/ sum.failed]

\* a reload that does not wait for the fire bit to clear
reload_always(ready, input) == TRUE

\* reload_bullet for one player: the new BulletReady
reload_bullet(ready, input) == IF ~fire(input) THEN TRUE ELSE ready

\* fire_bullets for one player: [spawn, ready]
fire_bullets(ready, input) ==
    IF fire(input) /\ ready THEN [spawn |-> TRUE, ready |-> FALSE]
    ELSE [spawn |-> FALSE, ready |-> ready]

\* the inputs of a tick: no key, up, up and down, right, up and right, down and
\* left, and fire alone or with other keys
TickInputs == {0, 1, 3, 8, 9, 6, 16, 17, 24, 27}

\* positions a session starts from: the default, and positions at and near the
\* border as a loaded snapshot restores them
StartPositions ==
    {Zero, Vec(WIDTH, WIDTH), Vec(-WIDTH, WIDTH - 100), Vec(WIDTH - 300, 0)}

\* A session of one player begins: insert_player_components gives
\* BulletReady(true) and MoveDir(-X); apply_loaded_components overwrites
\* BulletReady with the value of a loaded snapshot.
InitGame ==
    /\ kind = [p \in Peers |-> "closed"]
    /\ gstate = [p \in Peers |-> "Matchmaking"]
    /\ sockId = [p \in Peers |-> NoId]
    /\ usedIds = {}
    /\ chanTaken = [p \in Peers |-> FALSE]
    /\ peers = [p \in Peers |-> NoPeers]
    /\ evq = [p \in Peers |-> <<>>]
    /\ links = {}
    /\ met = {}
    /\ net = [p \in Peers |-> [q \in Peers |-> <<>>]]
    /\ messages = [p \in Peers |-> <<>>]
    /\ world = [p \in Peers |-> <<>>]
    /\ waitingOn = [p \in Peers |-> [present |-> FALSE, ids |-> {}]]
    /\ storedSave = [p \in Peers |-> NoSave]
    /\ tabStore = [p \in Peers |-> NoTab]
    /\ fresh = [p \in Peers |-> [ready |-> FALSE, info |-> FALSE, prop |-> FALSE]]
    /\ cookies = [p \in Peers |-> NoCookies]
    /\ toggles = [p \in Peers |-> 0]
    /\ opens = [p \in Peers |-> 0]
    /\ session = [p \in Peers |-> NoSession]
    /\ gamesaves = [p \in Peers |-> <<>>]
    /\ start = [p \in Peers |-> NoStart]
    /\ fx = NoFx
    /\ \E c \in BOOLEAN, d \in Diagonals, pos \in StartPositions, r \in BOOLEAN :
          game = [NoGame EXCEPT !.checked = c, !.diag = d, !.op = "tick", !.pos = pos,
                                !.old_pos = pos, !.move_dir = Vec(-One, 0),
                                !.old_dir = Vec(-One, 0), !.bullet_ready = r,
                                !.ready0 = r]

\* one run of the GGRSSchedule: move_players, reload_bullet, then fire_bullets
GgrsTick ==
    /\ game.op = "tick"
    /\ game.t < MaxTicks
    /\ ~game.failed
    /\ \E input \in TickInputs :
         LET mp == move_players(game, input)
             fb == fire_bullets(reload_bullet(game.bullet_ready, input), input)
         IN game' = IF mp.failed
                    THEN [game EXCEPT !.failed = TRUE, !.input = input, !.t = @ + 1]
                    ELSE [game EXCEPT
                            !.t = @ + 1,
                            !.input = input,
                            !.old_pos = game.pos,
                            !.old_dir = game.move_dir,
                            !.pos = mp.pos,
                            !.move_dir = mp.move_dir,
                            !.moved = direction_fixed(input, game.diag) # Zero,
                            !.bullet_ready = fb.ready,
                            !.spawned = fb.spawn,
                            !.hold = IF fire(input) THEN @ + 1 ELSE 0,
                            !.shots = IF ~fire(input) THEN 0
                                      ELSE @ + (IF fb.spawn THEN 1 ELSE 0)]
    /\ UNCHANGED <<lobbyVars, fx>>

NextGame == GgrsTick

SpecGame == InitGame /\ [][NextGame]_vars

\* C32: in every run of consecutive ticks with the fire bit set, exactly one
\* bullet has been spawned for the player.
C32_OneBulletPerPress ==
    (game.op = "tick" /\ ~game.failed /\ game.hold >= 1) => game.shots = 1

\* in such a run never more than one bullet is spawned, and exactly one unless
\* the run began with the first tick of a session that a snapshot started with
\* BulletReady(false)
C32_OneBulletPerPressWhenReady ==
    (game.op = "tick" /\ ~game.failed /\ game.hold >= 1) =>
        /\ game.shots <= 1
        /\ (game.ready0 \/ game.hold < game.t) => game.shots = 1

\* fire held over MaxTicks ticks of a session that began ready
C32_HeldFire ==
    /\ game.op = "tick"
    /\ game.ready0
    /\ game.hold = MaxTicks
    /\ game.shots = 1
    /\ ~game.spawned

InRange(v) == /\ -WIDTH <= v.x /\ v.x <= WIDTH
              /\ -WIDTH <= v.y /\ v.y <= WIDTH

\* C33: after a tick, the position of the player lies within [-WIDTH, WIDTH]
\* on both axes, WIDTH being 20; a tick whose input has the zero direction
\* leaves position and move direction as they were.
C33_PositionStaysOnMap ==
    (game.op = "tick" /\ game.t >= 1 /\ ~game.failed) =>
        /\ WIDTH = 20 * One
        /\ InRange(game.pos)
        /\ ~game.moved => game.pos = game.old_pos /\ game.move_dir = game.old_dir

\* a move against the border: the tick left the player on the border
C33_Witness ==
    /\ game.op = "tick"
    /\ game.t >= 1
    /\ game.moved
    /\ game.move_dir.x > 0
    /\ game.old_pos.x = WIDTH
    /\ game.pos.x = WIDTH

\* ---------------------------------------------------------------- the local record
\* C35: a peer never holds two records marked local.
C35_AtMostOneLocal ==
    \A p \in Peers : Cardinality(LocalIdx(world[p])) <= 1

\* a local record appears only at a peer that had none and has a transport
\* identifier, and it carries that identifier
C35_LocalCreatedOnce ==
    [][\A p \in Peers :
         (kind[p] = "full" /\ LocalIdx(world'[p]) # {} /\ LocalIdx(world[p]) = {}) =>
            /\ sockId[p] # NoId
            /\ \A i \in LocalIdx(world'[p]) : world'[p][i].id = sockId[p]]_vars

\* a peer back in the lobby after a session, with a local record again
C35_Witness ==
    \E p \in Peers :
        /\ kind[p] = "full"
        /\ gstate[p] = "Matchmaking"
        /\ start[p].n >= 1
        /\ Cardinality(LocalIdx(world[p])) = 1
        /\ \A i \in LocalIdx(world[p]) : world[p][i].id = sockId[p]

====
